---- MODULE Spec2Model ----
(***************************************************************************)
(* Connection state machine of the RM-01 Internet Connector (Linux build): *)
(* AppState (app_state.py) driving NetworkService (network_service.py).    *)
(*                                                                         *)
(* The GUI thread runs one handler at a time.  connect() and disconnect()  *)
(* schedule their deferred step with QTimer.singleShot; the deferred step  *)
(* blocks the GUI thread inside Popen.communicate() while the privileged   *)
(* script runs, which is modelled by the position variable pc.             *)
(***************************************************************************)
EXTENDS Integers, Sequences, FiniteSets, TLC

\* ------------------------------------------------------------------ bounds
MaxPending == 2     \* single-shot timers that may be queued at once
MaxOrphans == 1     \* scripts left running on the OS by an expired timeout
MaxQueued  == 1     \* speed_updated emissions waiting in the GUI event loop
MaxRoutes  == 2     \* default routes in a routing table
MaxIfaces  == 2     \* entries of /sys/class/net

\* --------------------------------------------------------------- constants
None == "None"

IDLE       == "idle"
CONNECTING == "connecting"
CONNECTED  == "connected"
FAILED     == "failed"
ConnectionStatus == {IDLE, CONNECTING, CONNECTED, FAILED}

Device    == "enx0"                  \* the AX88179 adapter, when plugged in
Upstreams == {"wlan0", "eth0"}       \* interfaces that can carry a default route

GoodPassword == "good"               \* the password sudo accepts
BadPassword  == "bad"                \* a password sudo rejects
\* values request_password() can return: cancelled, empty entry, a password
PasswordReplies == {None, "", GoodPassword, BadPassword}

\* rate samples (upload, download) the sampler can deliver, in bytes/s
Samples == {<<500, 300>>}

\* ------------------------------------------------------------- text values
\* Messages are sequences of tokens; str.lower() and the `in` operator are
\* computed on them (Lower, Contains).
Lower(tok) ==
    CASE tok = "Authentication" -> "authentication"
      [] tok = "Permission"     -> "permission"
      [] tok = "Operation"      -> "operation"
      [] tok = "Cannot"         -> "cannot"
      [] tok = "No"             -> "no"
      [] tok = "ASIX"           -> "asix"
      [] tok = "AX88179"        -> "ax88179"
      [] OTHER                  -> tok

LowerMsg(msg) == [i \in 1..Len(msg) |-> Lower(msg[i])]

Contains(msg, phrase) ==
    \E i \in 1..(Len(msg) - Len(phrase) + 1) :
        SubSeq(msg, i, i + Len(phrase) - 1) = phrase

\* what sudo prints when it rejects the password (the last one is localised)
SudoDeniedOutputs ==
    { <<"sudo:", "1", "incorrect", "password", "attempt">>,
      <<"sudo:", "Authentication", "failure">>,
      <<"sudo:", "1", "saisie", "de", "mot", "de", "passe", "incorrecte">> }

\* what a failing step of the enable script prints (set -e aborts the script)
ScriptFailOutputs ==
    { <<"Cannot", "find", "device">>,
      <<"iptables:", "Permission", "denied">>,
      <<>> }

TimeoutMsg  == <<"Operation", "timed", "out">>
LaunchError == <<"No", "such", "file", "or", "directory:", "sudo">>
FaultMsg    == <<"errno", "5", "Input/output", "error">>

\* ------------------------------------------------------------------- state
VARIABLES
    connection_status,    \* AppState._connection_status
    status_key,           \* AppState._status_key
    is_busy,              \* AppState._is_busy
    current_interface,    \* AppState._current_interface (its name, or None)
    upstream_interface,   \* AppState._upstream_interface (its name, or None)
    cached_password,      \* AppState._cached_password
    speed_monitor,        \* AppState._speed_monitor: interface it polls, or None
    upload_speed,         \* AppState._upload_speed
    download_speed,       \* AppState._download_speed
    pending,              \* single-shot timers queued by connect()/disconnect()
    pc,                   \* where the GUI thread is: "idle", or blocked in
                          \* communicate() on the "enable" / "disable" script
    adapter,              \* OS: what detect_adapter() finds
    routes,               \* OS: `ip route show default`, interface per line
    nat_rules,            \* OS: MASQUERADE rules for 10.10.99.0/24, per upstream
    ip_forward,           \* OS: net.ipv4.ip_forward = 1
    scripts,              \* OS: privileged scripts currently executing: the one
                          \* the GUI thread waits for (fg) and those that
                          \* outlived their timeout (orphans)
    op,                   \* the operation that made the last step
    exit,                 \* the path on which the last step left its handler
    log,                  \* calls made and signals emitted by the last step
    pre_status,           \* history: status held when the operation in flight,
                          \* or just ended by the last step, was accepted
    history,              \* whether pre_status is recorded (SpecHistory)
    thread,               \* the SpeedMonitor thread: where run() stands, its
                          \* _running flag, its last counters, whether its
                          \* speed_updated signal is connected, and (seen) what
                          \* the counters stood at when it last read them
    queued,               \* speed_updated emissions posted to the GUI thread's
                          \* event loop and not yet delivered
    gui,                  \* where the GUI thread stands in _stop_speed_monitor
    sampled,              \* the pass the sampling loop made in the last step, if
                          \* any: counters read, elapsed time, what it emitted
    tables,               \* OS: iptables rules, number installed of each
    ran,                  \* the privileged scripts run so far, latest last
    files,                \* disk: the executor's temporary script file and the
                          \* CLI's state file, each absent (<<>>) or <<content>>
    call,                 \* the NetworkService / CLI call made by the last step:
                          \* its name, what it returned and what it did
    given                 \* the arguments and the OS answers the call is made with

app_vars == <<connection_status, status_key, is_busy, current_interface,
              upstream_interface, cached_password, speed_monitor,
              upload_speed, download_speed>>
os_vars  == <<adapter, routes, nat_rules, ip_forward, scripts>>
thread_vars == <<thread, queued, gui, sampled, tables, ran>>
cli_vars == <<files, call, given>>
aux_vars == <<thread_vars, cli_vars>>
main_vars == <<app_vars, pending, pc, os_vars, op, exit, log, pre_status, history>>
vars     == <<app_vars, pending, pc, os_vars, op, exit, log, pre_status, history,
              aux_vars>>

\* The fields of AppState as one record, with the log of the running handler.
Self ==
    [ connection_status  |-> connection_status,
      status_key         |-> status_key,
      is_busy            |-> is_busy,
      current_interface  |-> current_interface,
      upstream_interface |-> upstream_interface,
      cached_password    |-> cached_password,
      speed_monitor      |-> speed_monitor,
      upload_speed       |-> upload_speed,
      download_speed     |-> download_speed,
      log                |-> <<>> ]

\* Writes the record a handler ends with back to the fields.
Commit(s) ==
    /\ connection_status'  = s.connection_status
    /\ status_key'         = s.status_key
    /\ is_busy'            = s.is_busy
    /\ current_interface'  = s.current_interface
    /\ upstream_interface' = s.upstream_interface
    /\ cached_password'    = s.cached_password
    /\ speed_monitor'      = s.speed_monitor
    /\ upload_speed'       = s.upload_speed
    /\ download_speed'     = s.download_speed
    /\ log'                = s.log

\* A log entry: a call or a signal, with the status and busy flag an observer
\* reads at that moment (signals are delivered synchronously).
Entry(s, ev, val, msg, rate) ==
    [ ev |-> ev, val |-> val, msg |-> msg, rate |-> rate,
      busy |-> s.is_busy, status |-> s.connection_status ]

Emit(s, sig, val) ==
    [s EXCEPT !.log = Append(@, Entry(s, sig, val, <<>>, <<0, 0>>))]

\* Faulty variant, for comparison: a failure that is not reported
EmitError_silent(s, msg) == s

EmitError(s, msg) ==
    [s EXCEPT !.log = Append(@, Entry(s, "error_occurred", "", msg, <<0, 0>>))]

EmitSpeed(s, rate) ==
    [s EXCEPT !.log = Append(@, Entry(s, "speed_changed", "", <<>>, rate))]

Call(s, fn) ==
    [s EXCEPT !.log = Append(@, Entry(s, "call", fn, <<>>, <<0, 0>>))]

BoolStr(b) == IF b THEN "True" ELSE "False"

\* --------------------------------------------------- AppState property setters
set_connection_status(s, value) ==
    IF s.connection_status # value
    THEN Emit([s EXCEPT !.connection_status = value], "status_changed", value)
    ELSE s

set_current_interface(s, value) ==
    IF s.current_interface # value
    THEN Emit([s EXCEPT !.current_interface = value], "interface_changed", value)
    ELSE s

set_status_key(s, value) ==
    IF s.status_key # value
    THEN Emit([s EXCEPT !.status_key = value], "status_key_changed", value)
    ELSE s

set_is_busy(s, value) ==
    IF s.is_busy # value
    THEN Emit([s EXCEPT !.is_busy = value], "busy_changed", BoolStr(value))
    ELSE s

\* ------------------------------------------------------------ speed monitor
\* Faulty variant, for comparison: a start that does not look for a running sampler
start_speed_monitor_unguarded(s) ==
    IF s.current_interface # None
    THEN Call([s EXCEPT !.speed_monitor = s.current_interface],
              "SpeedMonitor.start")
    ELSE s

start_speed_monitor(s) ==
    IF s.current_interface # None /\ s.speed_monitor = None
    THEN Call([s EXCEPT !.speed_monitor = s.current_interface],
              "SpeedMonitor.start")
    ELSE s

\* Faulty variant, for comparison: a stop that leaves the last rates standing
stop_speed_monitor_keeps_rates(s) ==
    EmitSpeed([s EXCEPT !.speed_monitor = None], <<0, 0>>)

stop_speed_monitor(s) ==
    EmitSpeed([s EXCEPT !.speed_monitor = None,
                        !.upload_speed = 0,
                        !.download_speed = 0], <<0, 0>>)

on_speed_updated(s, rate) ==
    EmitSpeed([s EXCEPT !.upload_speed = rate[1],
                        !.download_speed = rate[2]], rate)

\* ------------------------------------------------------- SpeedMonitor thread
\* (rx_bytes, tx_bytes) the interface's counters can stand at
Counters == { <<1000, 1000>>, <<1500, 1300>>, <<200, 2000>> }

\* get_interface_stats: the counters as read from sysfs, (0, 0) when the read
\* raises ValueError or IOError
get_interface_stats(counter, ok) == IF ok THEN counter ELSE <<0, 0>>

\* current_time - self._last_time, in seconds, as time.time() tells it (0: the
\* clock did not advance).  Every reading and every difference of two readings is
\* even, so the float division of the source is exact and \div computes it.
Elapsed == {0, 1, 2}

\* Faulty variant, for comparison: the differences taken without the clamp, rx and tx as given
speed_rate_unclamped(last, current, time_diff) ==
    << (current[1] - last[1]) \div time_diff,
       (current[2] - last[2]) \div time_diff >>

\* SpeedMonitor.run: the sample (upload_speed, download_speed) of one pass
speed_rate(last, current, time_diff) ==
    LET rx_diff == IF current[1] > last[1] THEN current[1] - last[1] ELSE 0
        tx_diff == IF current[2] > last[2] THEN current[2] - last[2] ELSE 0
    IN << rx_diff \div time_diff, tx_diff \div time_diff >>

\* Faulty variant, for comparison: a disconnect that leaves posted emissions in the queue
disconnect_speed_updated_keeps_posted(posted) == posted

\* speed_updated.disconnect(self._on_speed_updated): emissions posted to the
\* GUI thread and not yet delivered no longer reach the slot.
disconnect_speed_updated(posted) == <<>>

\* ---------------------------------------------------------- NetworkService
Max(a, b) == IF a >= b THEN a ELSE b

\* default-route tables the OS can show (one interface name per route line)
RouteTables ==
    { <<"docker0">>, <<"tun0", "wlan0">>, <<"enx0", "eth0">> }

\* str.startswith on the interface names that occur in the model
StartsWith(name, prefix) ==
    <<name, prefix>> \in { <<"docker0", "docker">>, <<"tun0", "tun">>,
                           <<"lo", "lo">>, <<"enx0", "enx">>, <<"enx1", "enx">>,
                           <<"utun0", "utun">>, <<"ppp0", "ppp">> }

VirtualPrefixes == {"lo", "docker", "br-", "veth", "virbr", "tun", "tap"}

\* Faulty variant, for comparison: the first default route taken as it comes
find_upstream_interface_no_filter(table, exclude) ==
    IF table = <<>> THEN None ELSE Head(table)

RECURSIVE find_upstream_interface(_, _)
find_upstream_interface(table, exclude) ==
    IF table = <<>> THEN None
    ELSE IF Head(table) = exclude
              \/ \E p \in VirtualPrefixes : StartsWith(Head(table), p)
         THEN find_upstream_interface(Tail(table), exclude)
         ELSE Head(table)

\* AppState._check_actual_connection: a MASQUERADE rule for 10.10.99.0 shows
\* in the listing, provided one of the two iptables commands exits 0.
check_actual_connection(listable) ==
    listable /\ \E u \in Upstreams : nat_rules[u] > 0

check_ip_forwarding == ip_forward

\* What the generated scripts do to the OS.  `reach` says how far the script
\* got: "all" (to its last line), "partial" (enable only: set -e stopped it
\* at the first iptables -A, after sysctl and the three iptables -D), "none".
generate_enable_script(rules, forward, upstream, reach) ==
    CASE reach = "all" ->
           [ rules   |-> [rules EXCEPT ![upstream] = Max(@ - 1, 0) + 1],
             forward |-> TRUE ]
      [] reach = "partial" ->
           [ rules   |-> [rules EXCEPT ![upstream] = Max(@ - 1, 0)],
             forward |-> TRUE ]
      [] OTHER ->
           [ rules |-> rules, forward |-> forward ]

generate_disable_script(rules, forward, upstream, reach) ==
    IF reach = "all"
    THEN [ rules   |-> [rules EXCEPT ![upstream] = Max(@ - 1, 0)],
           forward |-> forward ]
    ELSE [ rules |-> rules, forward |-> forward ]

ScriptEffect(kind, upstream, reach) ==
    IF kind = "enable"
    THEN generate_enable_script(nat_rules, ip_forward, upstream, reach)
    ELSE generate_disable_script(nat_rules, ip_forward, upstream, reach)

\* ------------------------------------------- the generated scripts, by line
\* An iptables rule as the scripts spell it: chain, -i, -o, and the rest.
\* The MASQUERADE rule names no device: its -s is the fixed NETWORK.
MasqueradeRule(upstream_iface) ==
    <<"nat POSTROUTING", None, upstream_iface, "-s NETWORK -j MASQUERADE">>

ForwardOutRule(rm01_iface, upstream_iface) ==
    <<"FORWARD", rm01_iface, upstream_iface, "-j ACCEPT">>

ForwardBackRule(rm01_iface, upstream_iface) ==
    <<"FORWARD", upstream_iface, rm01_iface,
      "-m state --state RELATED,ESTABLISHED -j ACCEPT">>

PairRules(rm01_iface, upstream_iface) ==
    { MasqueradeRule(upstream_iface),
      ForwardOutRule(rm01_iface, upstream_iface),
      ForwardBackRule(rm01_iface, upstream_iface) }

Rules == UNION {PairRules(Device, u) : u \in Upstreams}

\* A script line: the command, the rule it names (None for other commands),
\* and whether it ends in `|| true`.
Line(cmd, rule, ignore) == [cmd |-> cmd, rule |-> rule, ignore |-> ignore]

\* Faulty variant, for comparison: an enable script that adds without clearing first
enable_script_lines_no_clear(rm01_iface, upstream_iface) ==
    << Line("ip addr flush", None, TRUE),
       Line("ip addr add", None, TRUE),
       Line("ip link set up", None, FALSE),
       Line("sysctl -w net.ipv4.ip_forward=1", None, FALSE),
       Line("iptables -A", MasqueradeRule(upstream_iface), FALSE),
       Line("iptables -A", ForwardOutRule(rm01_iface, upstream_iface), FALSE),
       Line("iptables -A", ForwardBackRule(rm01_iface, upstream_iface), FALSE),
       Line("echo", None, FALSE) >>

\* NetworkService._generate_enable_script, line by line (under set -e)
enable_script_lines(rm01_iface, upstream_iface) ==
    << Line("ip addr flush", None, TRUE),
       Line("ip addr add", None, TRUE),
       Line("ip link set up", None, FALSE),
       Line("sysctl -w net.ipv4.ip_forward=1", None, FALSE),
       Line("iptables -D", MasqueradeRule(upstream_iface), TRUE),
       Line("iptables -D", ForwardOutRule(rm01_iface, upstream_iface), TRUE),
       Line("iptables -D", ForwardBackRule(rm01_iface, upstream_iface), TRUE),
       Line("iptables -A", MasqueradeRule(upstream_iface), FALSE),
       Line("iptables -A", ForwardOutRule(rm01_iface, upstream_iface), FALSE),
       Line("iptables -A", ForwardBackRule(rm01_iface, upstream_iface), FALSE),
       Line("echo", None, FALSE) >>

\* Faulty variant, for comparison: a disable script whose address flush may stop it
disable_script_lines_strict(rm01_iface, upstream_iface) ==
    << Line("iptables -D", MasqueradeRule(upstream_iface), TRUE),
       Line("iptables -D", ForwardOutRule(rm01_iface, upstream_iface), TRUE),
       Line("iptables -D", ForwardBackRule(rm01_iface, upstream_iface), TRUE),
       Line("ip addr flush", None, FALSE),
       Line("ip link set down", None, TRUE),
       Line("sleep 1", None, FALSE),
       Line("ip link set up", None, TRUE),
       Line("dhclient", None, TRUE),
       Line("echo", None, FALSE) >>

\* NetworkService._generate_disable_script, line by line (under set -e)
disable_script_lines(rm01_iface, upstream_iface) ==
    << Line("iptables -D", MasqueradeRule(upstream_iface), TRUE),
       Line("iptables -D", ForwardOutRule(rm01_iface, upstream_iface), TRUE),
       Line("iptables -D", ForwardBackRule(rm01_iface, upstream_iface), TRUE),
       Line("ip addr flush", None, TRUE),
       Line("ip link set down", None, TRUE),
       Line("sleep 1", None, FALSE),
       Line("ip link set up", None, TRUE),
       Line("dhclient", None, TRUE),
       Line("echo", None, FALSE) >>

\* What one line does to the rule counts: -D deletes one instance of the rule
\* (and fails, ignored, when there is none), -A appends one.
run_line(tbl, line) ==
    CASE line.cmd = "iptables -D" ->
           IF tbl[line.rule] > 0 THEN [tbl EXCEPT ![line.rule] = @ - 1] ELSE tbl
      [] line.cmd = "iptables -A" -> [tbl EXCEPT ![line.rule] = @ + 1]
      [] OTHER -> tbl

\* The script run as far as line `upto`: to its end, or until sudo refused
\* it (0), set -e stopped it at a failing line, or the process was killed.
RECURSIVE run_script(_, _, _)
run_script(tbl, lines, upto) ==
    IF upto = 0 \/ lines = <<>> THEN tbl
    ELSE run_script(run_line(tbl, Head(lines)), Tail(lines), upto - 1)

\* ------------------------------------------------------------ start values
\* neither file exists
NoFiles == [script |-> <<>>, state |-> <<>>]

\* no call made yet
NoCall == [fn |-> "none"]

NoThread ==
    [pc |-> "none", running |-> FALSE, last |-> None, seen |-> None,
     attached |-> FALSE]

ThreadInit ==
    /\ thread = NoThread
    /\ queued = <<>>
    /\ gui = "idle"
    /\ sampled = <<>>
    /\ tables = [r \in Rules |-> 0]
    /\ ran = <<>>

AuxInit ==
    /\ ThreadInit
    /\ files = NoFiles
    /\ call = NoCall
    /\ given = NoCall

\* How a run of `sudo -S bash script` can end, as _run_privileged sees it:
\* rc "zero" / "nonzero" (with the tool's output), "timeout" (communicate()
\* raised TimeoutExpired; the child is not killed and goes on executing; what
\* it does to the OS is taken at the moment of the timeout), "raise" (Popen
\* failed).
ProcessResults(kind, password) ==
    {[rc |-> "raise", out |-> LaunchError, reach |-> "none"]}
    \cup
    (IF password # GoodPassword
     THEN {[rc |-> "nonzero", out |-> o, reach |-> "none"] : o \in SudoDeniedOutputs}
     ELSE {[rc |-> "zero", out |-> <<>>, reach |-> "all"]}
          \cup
          {[rc |-> "timeout", out |-> <<>>, reach |-> r] : r \in {"none", "all"}}
          \cup
          (IF kind = "enable"
           THEN {[rc |-> "nonzero", out |-> o, reach |-> r] :
                    o \in ScriptFailOutputs, r \in {"none", "partial"}}
           ELSE {}))

\* Faulty variant, for comparison: every non-zero exit taken for a rejected password
run_privileged_by_exit_code(result) ==
    CASE result.rc = "zero"    -> <<TRUE, <<>>>>
      [] result.rc = "nonzero" -> <<FALSE, <<"error_", "permission">>>>
      [] result.rc = "timeout" -> <<FALSE, TimeoutMsg>>
      [] OTHER                 -> <<FALSE, result.out>>

\* NetworkService._run_privileged: the (success, error) pair it returns.
run_privileged(result) ==
    CASE result.rc = "zero"    -> <<TRUE, <<>>>>
      [] result.rc = "nonzero" ->
           IF Contains(LowerMsg(result.out), <<"incorrect", "password">>)
              \/ Contains(LowerMsg(result.out), <<"authentication", "failure">>)
           THEN <<FALSE, <<"error_", "permission">>>>
           ELSE <<FALSE, result.out>>
      [] result.rc = "timeout" -> <<FALSE, TimeoutMsg>>
      [] OTHER                 -> <<FALSE, result.out>>

\* Faulty variant, for comparison: a classification that looks for "password" only
is_auth_error_password_only(error) ==
    Contains(LowerMsg(error), <<"password">>)

\* `"permission" in error.lower() or "password" in error.lower()`
is_auth_error(error) ==
    \/ Contains(LowerMsg(error), <<"permission">>)
    \/ Contains(LowerMsg(error), <<"password">>)

\* Faulty variant, for comparison: only a closed dialog counts as no credential
Falsy_none_only(password) == password = None

\* `not self._cached_password` / `not password`
Falsy(password) == password \in {None, ""}

\* ------------------------------------------------- AppState: deferred steps
\* How a deferred step leaves its handler: the record it ends with, the path
\* taken, and whether it is now blocked on the privileged script.
\* Faulty variant, for comparison: a handler that returns without its finally clause
Leave_without_finally(s, path) ==
    [ s |-> s, exit |-> path, launch |-> FALSE ]

Leave(s, path) ==
    [ s |-> set_is_busy(s, FALSE), exit |-> path, launch |-> FALSE ]

Launch(s, fn) ==
    [ s |-> Call(s, fn), exit |-> "launched", launch |-> TRUE ]

\* Faulty variant, for comparison: a failing branch that forgets to set the status
Failed_keeps_status(s, key, msg, path) ==
    Leave(EmitError(set_status_key(s, key), msg), path)

\* status_key, then status, then the error event (the order of every failing
\* branch and of the except clause), then the finally clause.
Failed(s, key, msg, path) ==
    Leave(EmitError(set_connection_status(set_status_key(s, key), FAILED), msg),
          path)

\* Faulty variant, for comparison: the credential requested before anything is detected
perform_connect_steps_password_first(s, fault, reply) ==
    LET s1 == Call(Call(s, "request_password"), "detect_adapter") IN
    IF adapter = None
    THEN Failed(s1, "interface_none", <<"error_no_interface">>, "no_adapter")
    ELSE
    LET s2 == Call(set_current_interface(s1, adapter), "find_upstream_interface")
        upstream == find_upstream_interface(routes, adapter)
    IN
    IF upstream = None
    THEN Failed(s2, "status_failed", <<"error_no_upstream">>, "no_upstream")
    ELSE IF Falsy(reply)
    THEN Leave(set_connection_status(set_status_key(s2, "status_idle"), IDLE),
               "cancelled")
    ELSE Launch([s2 EXCEPT !.upstream_interface = upstream,
                           !.cached_password = reply], "enable_sharing")

\* _perform_connect up to the call of enable_sharing.  `fault` names the call
\* that raises, if any; `reply` is what request_password() returns.
perform_connect_steps(s, fault, reply) ==
    LET s1 == Call(s, "detect_adapter") IN
    IF fault = "detect" THEN Failed(s1, "status_failed", FaultMsg, "exception")
    ELSE IF adapter = None
    THEN Failed(s1, "interface_none", <<"error_no_interface">>, "no_adapter")
    ELSE
    LET s2 == Call(set_current_interface(s1, adapter), "find_upstream_interface")
        upstream == find_upstream_interface(routes, adapter)
    IN
    IF fault = "upstream" THEN Failed(s2, "status_failed", FaultMsg, "exception")
    ELSE IF upstream = None
    THEN Failed(s2, "status_failed", <<"error_no_upstream">>, "no_upstream")
    ELSE
    LET s3 == [s2 EXCEPT !.upstream_interface = upstream] IN
    IF Falsy(s3.cached_password)
    THEN LET s4 == Call(s3, "request_password") IN
         IF fault = "password"
         THEN Failed(s4, "status_failed", FaultMsg, "exception")
         ELSE IF Falsy(reply)
         THEN Leave(set_connection_status(set_status_key(s4, "status_idle"), IDLE),
                    "cancelled")
         ELSE Launch([s4 EXCEPT !.cached_password = reply], "enable_sharing")
    ELSE Launch(s3, "enable_sharing")

\* _perform_connect from the return of enable_sharing on.
perform_connect_result(s, success, error) ==
    IF success
    THEN Leave(start_speed_monitor(
                 set_connection_status(set_status_key(s, "status_connected"),
                                       CONNECTED)),
               "success")
    ELSE LET s1 == IF is_auth_error(error)
                   THEN [s EXCEPT !.cached_password = None]
                   ELSE s
         IN Failed(s1, "status_failed", error, "failure")

\* Faulty variant, for comparison: the sampler stopped only once disable_sharing is about to run
perform_disconnect_steps_stop_late(s, fault, reply) ==
    IF s.current_interface = None \/ s.upstream_interface = None
    THEN Leave(set_connection_status(set_status_key(s, "status_idle"), IDLE),
               "short_circuit")
    ELSE
    IF Falsy(s.cached_password)
    THEN LET s2 == Call(s, "request_password") IN
         IF fault = "password"
         THEN Failed(s2, "status_failed", FaultMsg, "exception")
         ELSE IF Falsy(reply)
         THEN Leave(set_connection_status(
                      set_status_key(s2, "status_connected"), CONNECTED),
                    "cancelled")
         ELSE Launch(stop_speed_monitor([s2 EXCEPT !.cached_password = reply]),
                     "disable_sharing")
    ELSE Launch(stop_speed_monitor(s), "disable_sharing")

\* _perform_disconnect up to the call of disable_sharing.
perform_disconnect_steps(s, fault, reply) ==
    LET s1 == stop_speed_monitor(s) IN
    IF s1.current_interface = None \/ s1.upstream_interface = None
    THEN Leave(set_connection_status(set_status_key(s1, "status_idle"), IDLE),
               "short_circuit")
    ELSE
    IF Falsy(s1.cached_password)
    THEN LET s2 == Call(s1, "request_password") IN
         IF fault = "password"
         THEN Failed(s2, "status_failed", FaultMsg, "exception")
         ELSE IF Falsy(reply)
         THEN Leave(set_connection_status(
                      set_status_key(s2, "status_connected"), CONNECTED),
                    "cancelled")
         ELSE Launch([s2 EXCEPT !.cached_password = reply], "disable_sharing")
    ELSE Launch(s1, "disable_sharing")

\* Faulty variant, for comparison: a failed disable_sharing that keeps the status Connected
perform_disconnect_result_keeps_connected(s, success, error) ==
    IF success
    THEN LET s1 == set_connection_status(set_status_key(s, "status_idle"), IDLE)
             s2 == set_current_interface(s1, None)
         IN Leave([s2 EXCEPT !.upstream_interface = None], "success")
    ELSE Leave(EmitError(set_connection_status(
                           set_status_key(s, "status_connected"), CONNECTED),
                         error),
               "failure")

\* Faulty variant, for comparison: a successful disconnect that keeps both interfaces
perform_disconnect_result_keeps_interfaces(s, success, error) ==
    IF success
    THEN Leave(set_connection_status(set_status_key(s, "status_idle"), IDLE),
               "success")
    ELSE LET s1 == IF is_auth_error(error)
                   THEN [s EXCEPT !.cached_password = None]
                   ELSE s
         IN Failed(s1, "status_failed", error, "failure")

\* Faulty variant, for comparison: every failed disable_sharing forgets the credential
perform_disconnect_result_forgets_credential(s, success, error) ==
    IF success
    THEN LET s1 == set_connection_status(set_status_key(s, "status_idle"), IDLE)
             s2 == set_current_interface(s1, None)
         IN Leave([s2 EXCEPT !.upstream_interface = None], "success")
    ELSE Failed([s EXCEPT !.cached_password = None], "status_failed", error,
                "failure")

\* _perform_disconnect from the return of disable_sharing on.
perform_disconnect_result(s, success, error) ==
    IF success
    THEN LET s1 == set_connection_status(set_status_key(s, "status_idle"), IDLE)
             s2 == set_current_interface(s1, None)
         IN Leave([s2 EXCEPT !.upstream_interface = None], "success")
    ELSE LET s1 == IF is_auth_error(error)
                   THEN [s EXCEPT !.cached_password = None]
                   ELSE s
         IN Failed(s1, "status_failed", error, "failure")

\* The statements of AppState.refresh_interface.
refresh_interface_body(s, listable) ==
    LET s0 == set_current_interface(Call(s, "detect_adapter"), adapter) IN
    IF adapter = None THEN s0
    ELSE
    LET s1 == Call(s0, IF listable THEN "iptables_listed" ELSE "iptables_refused")
        is_configured == check_actual_connection(listable)
        is_forwarding == check_ip_forwarding
    IN
    IF is_configured /\ is_forwarding
    THEN LET s2 == [s1 EXCEPT !.connection_status = CONNECTED,
                              !.status_key = "status_connected",
                              !.upstream_interface =
                                  find_upstream_interface(routes, adapter)]
             s3 == start_speed_monitor(s2)
         IN Emit(Emit(s3, "status_changed", s3.connection_status),
                 "status_key_changed", s3.status_key)
    ELSE IF is_configured /\ ~is_forwarding
    THEN LET s2 == [s1 EXCEPT !.connection_status = FAILED,
                              !.status_key = "status_failed"]
         IN Emit(Emit(s2, "status_changed", s2.connection_status),
                 "status_key_changed", s2.status_key)
    ELSE s1

\* Faulty variant, for comparison: a refresh that marks itself busy while it runs
refresh_interface_steps_busy(s, listable) ==
    set_is_busy(refresh_interface_body(set_is_busy(s, TRUE), listable), FALSE)

\* AppState.refresh_interface.
refresh_interface_steps(s, listable) == refresh_interface_body(s, listable)

\* ----------------------------------------------------------------- actions
\* What the environment feeds a deferred step: the call that raises (if any)
\* and what request_password() returns.
StepInputs ==
    {[fault |-> f, reply |-> None] : f \in {"detect", "upstream", "password"}}
    \cup {[fault |-> "none", reply |-> r] : r \in PasswordReplies}

\* NAT rules a previous session or the CLI may have left behind at start-up
\* and whether forwarding was on
InitialOS ==
    { [rules |-> [u \in Upstreams |-> 0], forward |-> FALSE],
      [rules |-> [u \in Upstreams |-> IF u = "wlan0" THEN 1 ELSE 0], forward |-> FALSE],
      [rules |-> [u \in Upstreams |-> IF u = "wlan0" THEN 1 ELSE 0], forward |-> TRUE] }

\* an operation is in flight: its timer is queued or its handler is blocked
InFlight == pending # <<>> \/ pc # "idle"

\* number of privileged scripts executing on the OS
Executing == (IF scripts.fg = None THEN 0 ELSE 1) + scripts.orphans

\* Faulty variant, for comparison: connect() without its busy guard
connect_rejects_never(s) == FALSE

\* Faulty variant, for comparison: disconnect() without its busy guard
disconnect_rejects_never(s) == FALSE

\* `if self._is_busy: return` at the head of connect() and of disconnect()
connect_rejects(s) == s.is_busy

disconnect_rejects(s) == s.is_busy

\* AppState as constructed, and what the OS may look like then
MainInit ==
    /\ connection_status = IDLE
    /\ status_key = "status_idle"
    /\ is_busy = FALSE
    /\ current_interface = None
    /\ upstream_interface = None
    /\ cached_password = None
    /\ speed_monitor = None
    /\ upload_speed = 0
    /\ download_speed = 0
    /\ pending = <<>>
    /\ pc = "idle"
    /\ adapter \in {None, Device}
    /\ routes \in RouteTables
    /\ \E os \in InitialOS : nat_rules = os.rules /\ ip_forward = os.forward
    /\ scripts = [fg |-> None, orphans |-> 0]
    /\ op = "init"
    /\ exit = "none"
    /\ log = <<>>
    /\ pre_status = None
    /\ history \in BOOLEAN

Init == MainInit /\ AuxInit

\* AppState.connect()
connect ==
    /\ pc = "idle"
    /\ IF connect_rejects(Self)
       THEN /\ Commit(Self)
            /\ exit' = "rejected"
            /\ pre_status' = IF InFlight THEN pre_status ELSE None
            /\ UNCHANGED pending
       ELSE /\ Len(pending) < MaxPending
            /\ Commit(set_status_key(
                        set_connection_status(set_is_busy(Self, TRUE), CONNECTING),
                        "status_connecting"))
            /\ exit' = "accepted"
            /\ pending' = Append(pending, "connect")
            /\ pre_status' = IF history THEN connection_status ELSE None
    /\ op' = "connect"
    /\ UNCHANGED <<pc, os_vars, history, aux_vars>>

\* AppState.disconnect()
disconnect ==
    /\ pc = "idle"
    /\ IF disconnect_rejects(Self)
       THEN /\ Commit(Self)
            /\ exit' = "rejected"
            /\ pre_status' = IF InFlight THEN pre_status ELSE None
            /\ UNCHANGED pending
       ELSE /\ Len(pending) < MaxPending
            /\ Commit(set_connection_status(
                        set_status_key(set_is_busy(Self, TRUE), "status_disconnecting"),
                        CONNECTING))
            /\ exit' = "accepted"
            /\ pending' = Append(pending, "disconnect")
            /\ pre_status' = IF history THEN connection_status ELSE None
    /\ op' = "disconnect"
    /\ UNCHANGED <<pc, os_vars, history, aux_vars>>

\* The timer fires: _perform_connect runs until it returns or blocks in
\* enable_sharing.
perform_connect(in) ==
    /\ pc = "idle"
    /\ pending # <<>>
    /\ Head(pending) = "connect"
    /\ LET r == perform_connect_steps(Self, in.fault, in.reply) IN
          /\ Commit(r.s)
          /\ exit' = r.exit
          /\ IF r.launch
             THEN /\ pc' = "enable"
                  /\ scripts' = [scripts EXCEPT !.fg = "enable"]
             ELSE UNCHANGED <<pc, scripts>>
    /\ pending' = Tail(pending)
    /\ op' = "perform_connect"
    /\ UNCHANGED <<adapter, routes, nat_rules, ip_forward, pre_status, history, aux_vars>>

\* The timer fires: _perform_disconnect runs until it returns or blocks in
\* disable_sharing.
perform_disconnect(in) ==
    /\ pc = "idle"
    /\ pending # <<>>
    /\ Head(pending) = "disconnect"
    /\ LET r == perform_disconnect_steps(Self, in.fault, in.reply) IN
          /\ Commit(r.s)
          /\ exit' = r.exit
          /\ IF r.launch
             THEN /\ pc' = "disable"
                  /\ scripts' = [scripts EXCEPT !.fg = "disable"]
             ELSE UNCHANGED <<pc, scripts>>
    /\ pending' = Tail(pending)
    /\ op' = "perform_disconnect"
    /\ UNCHANGED <<adapter, routes, nat_rules, ip_forward, pre_status, history, aux_vars>>

\* _run_privileged returns to the blocked handler with `result`; the handler
\* runs to its end.  After a timeout the script is still executing.
script_returns(result) ==
    /\ pc \in {"enable", "disable"}
    /\ result \in ProcessResults(pc, cached_password)
    /\ result.rc = "timeout" => scripts.orphans < MaxOrphans
    /\ LET effect == ScriptEffect(pc, upstream_interface, result.reach)
           res    == run_privileged(result)
           r      == IF pc = "enable"
                     THEN perform_connect_result(Self, res[1], res[2])
                     ELSE perform_disconnect_result(Self, res[1], res[2])
       IN /\ Commit(r.s)
          /\ exit' = r.exit
          /\ nat_rules' = effect.rules
          /\ ip_forward' = effect.forward
          /\ scripts' = IF result.rc = "timeout"
                        THEN [fg |-> None, orphans |-> scripts.orphans + 1]
                        ELSE [scripts EXCEPT !.fg = None]
    /\ pc' = "idle"
    /\ op' = IF pc = "enable" THEN "connect_return" ELSE "disconnect_return"
    /\ UNCHANGED <<pending, adapter, routes, pre_status, history, aux_vars>>

\* AppState.refresh_interface()
refresh_interface(listable) ==
    /\ pc = "idle"
    /\ Commit(refresh_interface_steps(Self, listable))
    /\ op' = "refresh"
    /\ exit' = IF op = "refresh" THEN "again" ELSE "done"
    /\ pre_status' = IF InFlight THEN pre_status ELSE None
    /\ UNCHANGED <<pending, pc, os_vars, history, aux_vars>>

\* The sampler's speed_updated signal reaches AppState._on_speed_updated.
speed_updated(rate) ==
    /\ pc = "idle"
    /\ speed_monitor # None
    /\ Commit(on_speed_updated(Self, rate))
    /\ op' = "speed_updated"
    /\ exit' = "none"
    /\ pre_status' = IF InFlight THEN pre_status ELSE None
    /\ UNCHANGED <<pending, pc, os_vars, history, aux_vars>>

\* ------------------------------------------------------------- environment
\* The adapter is plugged in or pulled out.
env_adapter ==
    /\ adapter' \in {None, Device} \ {adapter}
    /\ Commit(Self)
    /\ op' = "env"
    /\ exit' = "none"
    /\ pre_status' = IF InFlight THEN pre_status ELSE None
    /\ UNCHANGED <<pending, pc, routes, nat_rules, ip_forward, scripts, history, aux_vars>>

\* The default routes change.
env_routes ==
    /\ routes' \in RouteTables \ {routes}
    /\ Commit(Self)
    /\ op' = "env"
    /\ exit' = "none"
    /\ pre_status' = IF InFlight THEN pre_status ELSE None
    /\ UNCHANGED <<pending, pc, adapter, nat_rules, ip_forward, scripts, history, aux_vars>>

\* A script that outlived its timeout comes to its end.
orphan_exits ==
    /\ scripts.orphans > 0
    /\ scripts' = [scripts EXCEPT !.orphans = @ - 1]
    /\ Commit(Self)
    /\ op' = "env"
    /\ exit' = "none"
    /\ pre_status' = IF InFlight THEN pre_status ELSE None
    /\ UNCHANGED <<pending, pc, adapter, routes, nat_rules, ip_forward, history, aux_vars>>

Next ==
    \/ connect
    \/ disconnect
    \/ \E in \in StepInputs : perform_connect(in)
    \/ \E in \in StepInputs : perform_disconnect(in)
    \/ \E result \in ProcessResults(pc, cached_password) : script_returns(result)
    \/ \E listable \in BOOLEAN : refresh_interface(listable)
    \/ \E rate \in Samples : speed_updated(rate)
    \/ env_adapter
    \/ env_routes
    \/ orphan_exits

\* The state machine; the history variable pre_status is not recorded.
InitPlain == Init /\ ~history

Spec == InitPlain /\ [][Next]_vars

\* The same state machine with pre_status recorded.
InitHistory == Init /\ history

SpecHistory == InitHistory /\ [][Next]_vars

\* A queued single-shot timer fires: the steps that take the head off
\* `pending` are exactly those of perform_connect and perform_disconnect.
timer_fires == pending # <<>> /\ pc = "idle" /\ pending' = Tail(pending)

\* The blocking call returns: the steps that bring pc back to "idle" are
\* exactly those of script_returns.
call_returns == pc # "idle" /\ pc' = "idle"

\* The Qt event loop fires every queued single-shot timer, and communicate()
\* returns (at the latest when its 30 s timeout expires).
Fairness == WF_pending(timer_fires) /\ WF_pc(call_returns)

FairSpec == InitPlain /\ [][Next]_vars /\ Fairness

\* ------------------------------------- the sampler thread and the GUI thread
\* _start_speed_monitor(): creates and starts the thread if there is none.
\* One thread is followed: a sampler is created once a thread that was let
\* go while still running has come to the end of run().
sampler_start ==
    /\ gui = "idle"
    /\ thread.pc \in {"none", "done"}
    /\ Commit(start_speed_monitor(Self))
    /\ thread' = IF current_interface # None /\ speed_monitor = None
                 THEN [pc |-> "initial", running |-> TRUE, last |-> None,
                       seen |-> None, attached |-> TRUE]
                 ELSE thread
    /\ op' = "start_speed_monitor"
    /\ exit' = "none"
    /\ sampled' = <<>>
    /\ UNCHANGED <<pending, pc, os_vars, pre_status, history, queued, gui,
                   tables, ran, cli_vars>>

\* run(): the initial sample.
run_initial(counter, ok) ==
    /\ thread.pc = "initial"
    /\ thread' = [thread EXCEPT !.last = get_interface_stats(counter, ok),
                                !.seen = counter, !.pc = "test"]
    /\ sampled' = <<>>
    /\ UNCHANGED <<main_vars, queued, gui, tables, ran, cli_vars>>

\* run(): `while self._running`
run_test ==
    /\ thread.pc = "test"
    /\ thread' = [thread EXCEPT !.pc = IF thread.running THEN "sleep" ELSE "done"]
    /\ sampled' = <<>>
    /\ UNCHANGED <<main_vars, queued, gui, tables, ran, cli_vars>>

\* run(): time.sleep(1.0) returns
run_sleep ==
    /\ thread.pc = "sleep"
    /\ thread' = [thread EXCEPT !.pc = "check"]
    /\ sampled' = <<>>
    /\ UNCHANGED <<main_vars, queued, gui, tables, ran, cli_vars>>

\* Faulty variant, for comparison: a pass that does not look at the flag after the sleep
run_check_ignores_stop ==
    /\ thread.pc = "check"
    /\ thread' = [thread EXCEPT !.pc = "sample"]
    /\ sampled' = <<>>
    /\ UNCHANGED <<main_vars, queued, gui, tables, ran, cli_vars>>

\* run(): `if not self._running: break`
run_check ==
    /\ thread.pc = "check"
    /\ thread' = [thread EXCEPT !.pc = IF thread.running THEN "sample" ELSE "done"]
    /\ sampled' = <<>>
    /\ UNCHANGED <<main_vars, queued, gui, tables, ran, cli_vars>>

\* run(): the counters are read, the sample is computed and emitted (posted
\* to the GUI thread, if the signal is still connected) when time has passed,
\* and the readings are kept.  `counter` is what the counters stand at, `ok`
\* whether reading them works.
run_sample(counter, ok, time_diff) ==
    /\ thread.pc = "sample"
    /\ LET current == get_interface_stats(counter, ok)
           emitted == IF time_diff > 0
                      THEN <<speed_rate(thread.last, current, time_diff)>>
                      ELSE <<>>
           posted  == IF thread.attached THEN emitted ELSE <<>>
       IN /\ Len(queued) + Len(posted) <= MaxQueued
          /\ queued' = queued \o posted
          /\ sampled' = << [last |-> thread.last, current |-> current,
                            elapsed |-> time_diff, emitted |-> emitted,
                            seen |-> thread.seen, counter |-> counter] >>
          /\ thread' = [thread EXCEPT !.last = current, !.seen = counter,
                                      !.pc = "test"]
    /\ UNCHANGED <<main_vars, gui, tables, ran, cli_vars>>

\* _stop_speed_monitor(): with a sampler, stop() clears its _running flag;
\* without one, only the rates are zeroed.
stop_begin ==
    /\ gui = "idle"
    /\ IF speed_monitor # None
       THEN /\ thread' = [thread EXCEPT !.running = FALSE]
            /\ gui' = "wait"
            /\ Commit(Self)
       ELSE /\ Commit(stop_speed_monitor(Self))
            /\ UNCHANGED <<thread, gui>>
    /\ op' = "stop_speed_monitor"
    /\ exit' = IF speed_monitor # None THEN "stopping" ELSE "no_sampler"
    /\ sampled' = <<>>
    /\ UNCHANGED <<pending, pc, os_vars, pre_status, history, queued, tables, ran, cli_vars>>

\* _stop_speed_monitor(): wait(2000) returns, the thread finished or not.
stop_wait(timed_out) ==
    /\ gui = "wait"
    /\ thread.pc = "done" \/ timed_out
    /\ gui' = "finish"
    /\ sampled' = <<>>
    /\ UNCHANGED <<main_vars, thread, queued, tables, ran, cli_vars>>

\* _stop_speed_monitor(): the signal is disconnected, the thread object is
\* let go (a thread that outlasted the wait runs on and emits to no slot from
\* here on), the rates are zeroed and speed_changed(0.0, 0.0) is emitted.
stop_finish ==
    /\ gui = "finish"
    /\ queued' = disconnect_speed_updated(queued)
    /\ thread' = IF thread.pc = "done"
                 THEN NoThread
                 ELSE [thread EXCEPT !.attached = FALSE]
    /\ Commit(stop_speed_monitor(Self))
    /\ gui' = "idle"
    /\ op' = "stop_speed_monitor"
    /\ exit' = IF queued # <<>> THEN "posted_dropped"
               ELSE IF thread.pc = "done" THEN "joined" ELSE "abandoned"
    /\ sampled' = <<>>
    /\ UNCHANGED <<pending, pc, os_vars, pre_status, history, tables, ran, cli_vars>>

\* The GUI event loop delivers a posted emission to _on_speed_updated.
deliver ==
    /\ gui = "idle"
    /\ queued # <<>>
    /\ Commit(on_speed_updated(Self, Head(queued)))
    /\ queued' = Tail(queued)
    /\ op' = "speed_updated"
    /\ exit' = "none"
    /\ sampled' = <<>>
    /\ UNCHANGED <<pending, pc, os_vars, pre_status, history, thread, gui,
                   tables, ran, cli_vars>>

NextSampler ==
    \/ sampler_start
    \/ \E counter \in Counters, ok \in BOOLEAN : run_initial(counter, ok)
    \/ run_test
    \/ run_sleep
    \/ run_check
    \/ \E counter \in Counters, ok \in BOOLEAN, time_diff \in Elapsed :
          run_sample(counter, ok, time_diff)
    \/ stop_begin
    \/ \E timed_out \in BOOLEAN : stop_wait(timed_out)
    \/ stop_finish
    \/ deliver

\* The adapter is plugged in and refresh_interface() has detected it.
InitSampler ==
    /\ connection_status = IDLE
    /\ status_key = "status_idle"
    /\ is_busy = FALSE
    /\ current_interface = Device
    /\ upstream_interface = None
    /\ cached_password = None
    /\ speed_monitor = None
    /\ upload_speed = 0
    /\ download_speed = 0
    /\ pending = <<>>
    /\ pc = "idle"
    /\ adapter = Device
    /\ routes = <<"enx0", "eth0">>
    /\ nat_rules = [u \in Upstreams |-> 0]
    /\ ip_forward = FALSE
    /\ scripts = [fg |-> None, orphans |-> 0]
    /\ op = "refresh"
    /\ exit = "done"
    /\ log = <<>>
    /\ pre_status = None
    /\ history = FALSE
    /\ AuxInit

SpecSampler == InitSampler /\ [][NextSampler]_vars

\* The sampler is a thread of its own: the scheduler lets it take its next
\* step, and time.sleep(1.0) returns.
FairnessSampler ==
    /\ WF_vars(\E counter \in Counters, ok \in BOOLEAN : run_initial(counter, ok))
    /\ WF_vars(run_test)
    /\ WF_vars(run_sleep)
    /\ WF_vars(run_check)
    /\ WF_vars(\E counter \in Counters, ok \in BOOLEAN, time_diff \in Elapsed :
                  run_sample(counter, ok, time_diff))

FairSpecSampler == SpecSampler /\ FairnessSampler

\* ------------------------------------------- the scripts run one after another
\* The two runs looked at: the previous one and the latest.
LastTwo(runs) == IF Len(runs) > 2 THEN Tail(runs) ELSE runs

Run(kind, upstream_iface, lines, upto) ==
    [kind |-> kind, device |-> Device, upstream |-> upstream_iface,
     complete |-> (upto = Len(lines))]

\* enable_sharing(device, upstream, password): the script runs as far as `upto`.
run_enable(upstream_iface, upto) ==
    LET lines == enable_script_lines(Device, upstream_iface) IN
    /\ upto \in 0..Len(lines)
    /\ tables' = run_script(tables, lines, upto)
    /\ ran' = LastTwo(Append(ran, Run("enable", upstream_iface, lines, upto)))
    /\ UNCHANGED <<main_vars, thread, queued, gui, sampled, cli_vars>>

\* disable_sharing(device, upstream, password): the script runs as far as `upto`.
run_disable(upstream_iface, upto) ==
    LET lines == disable_script_lines(Device, upstream_iface) IN
    /\ upto \in 0..Len(lines)
    /\ tables' = run_script(tables, lines, upto)
    /\ ran' = LastTwo(Append(ran, Run("disable", upstream_iface, lines, upto)))
    /\ UNCHANGED <<main_vars, thread, queued, gui, sampled, cli_vars>>

NextScripts ==
    \/ \E u \in Upstreams : \E upto \in 0..Len(enable_script_lines(Device, u)) :
           run_enable(u, upto)
    \/ \E u \in Upstreams : \E upto \in 0..Len(disable_script_lines(Device, u)) :
           run_disable(u, upto)

\* A freshly booted machine (no rule installed) with the adapter plugged in.
InitScripts ==
    /\ InitPlain
    /\ adapter = Device
    /\ routes = <<"enx0", "eth0">>
    /\ \A u \in Upstreams : nat_rules[u] = 0

SpecScripts == InitScripts /\ [][NextScripts]_vars

\* ================================== NetworkService, one call at a time
\* sequences of at most n elements of S
SeqsUpTo(S, n) == UNION {[1..k -> S] : k \in 0..n}

\* interface names `ip route show default` can name (Linux), and the devices
\* `netstat -rn` can name on its default lines (macOS)
RouteNames == {"enx0", "wlan0", "eth0", "docker0", "tun0", "lo"}

MacRouteNames == {"en0", "en5", "utun0", "ppp0"}

MacVpnPrefixes == {"utun", "ppp"}

\* MacOSNetworkService.find_upstream_interface: the device of the first default
\* line that is not `exclude`, not a VPN device and has a hardware port name
\* (`ported`); failing that, the Wi-Fi device (`wifi`), if there is one.
RECURSIVE mac_find_upstream_interface(_, _, _, _)
mac_find_upstream_interface(table, exclude, ported, wifi) ==
    IF table = <<>> THEN wifi
    ELSE IF \/ Head(table) = exclude
            \/ \E p \in MacVpnPrefixes : StartsWith(Head(table), p)
            \/ Head(table) \notin ported
         THEN mac_find_upstream_interface(Tail(table), exclude, ported, wifi)
         ELSE Head(table)

\* ------------------------------------------------------- adapter detection
VENDOR_ID == "0b95"

PRODUCT_IDS == {"1790", "178a"}

SkipPrefixes == {"lo", "docker", "br-", "veth", "virbr"}

\* An entry of /sys/class/net: its name, whether <name>/device exists, whether
\* device/uevent is there and readable ("ok", "missing", "unreadable") and its
\* text, and the USB ids of the hardware behind it (None when it is not USB).
NetEntries ==
    { [name |-> "lo", device |-> FALSE, uevent |-> "missing", content |-> <<>>,
       vendor |-> None, product |-> None],
      [name |-> "eth0", device |-> TRUE, uevent |-> "ok",
       content |-> <<"DRIVER=", "e1000e">>,
       vendor |-> None, product |-> None],
      [name |-> "enx0", device |-> TRUE, uevent |-> "ok",
       content |-> <<"DRIVER=", "ax88179", "_178a", "PRODUCT=", "b95/1790/100">>,
       vendor |-> "0b95", product |-> "1790"],
      [name |-> "enx0", device |-> TRUE, uevent |-> "unreadable", content |-> <<>>,
       vendor |-> "0b95", product |-> "1790"],
      [name |-> "enx1", device |-> TRUE, uevent |-> "ok",
       content |-> <<"DRIVER=", "r8152", "PRODUCT=", "bda/8153/3100">>,
       vendor |-> "0bda", product |-> "8153"] }

\* listings of /sys/class/net, in the order iterdir() yields them
NetListings ==
    { l \in SeqsUpTo(NetEntries, MaxIfaces) :
        \A i, j \in 1..Len(l) : i # j => l[i].name # l[j].name }

\* what lsusb prints: nothing of interest, or the AX88179 among the devices
LsusbOutputs ==
    { <<>>,
      <<"ID", "0b95:1790", "ASIX", "Electronics", "Corp.", "AX88179",
        "Gigabit", "Ethernet">> }

is_ax88179_uevent(content) ==
    \/ Contains(LowerMsg(content), <<"vendor=", VENDOR_ID>>)
    \/ Contains(LowerMsg(content), <<"ax88179">>)

check_usb_device_exists(lsusb) ==
    /\ Contains(LowerMsg(lsusb), <<"asix">>)
    /\ \/ Contains(LowerMsg(lsusb), <<"ax88179">>)
       \/ Contains(LowerMsg(lsusb), <<"0b95:1790">>)

\* _check_usb_device_with_mac: once the USB device is listed, both the
\* MAC-verified branch and the fallback return True.
check_usb_device_with_mac(iface_name, lsusb) ==
    IF ~check_usb_device_exists(lsusb) THEN FALSE ELSE TRUE

\* _detect_all_adapters: the loop over the listing; `interfaces` is the list
\* built so far.
RECURSIVE detect_all_adapters(_, _, _)
detect_all_adapters(listing, lsusb, interfaces) ==
    IF listing = <<>> THEN interfaces
    ELSE
    LET e == Head(listing)
        skipped == \/ \E p \in SkipPrefixes : StartsWith(e.name, p)
                   \/ ~e.device
        by_uevent == e.uevent = "ok" /\ is_ax88179_uevent(e.content)
        by_lsusb == /\ StartsWith(e.name, "enx")
                    /\ interfaces = <<>>
                    /\ check_usb_device_with_mac(e.name, lsusb)
    IN detect_all_adapters(Tail(listing), lsusb,
                           IF ~skipped /\ (by_uevent \/ by_lsusb)
                           THEN Append(interfaces, e.name)
                           ELSE interfaces)

detect_adapter(listing, lsusb) ==
    LET interfaces == detect_all_adapters(listing, lsusb, <<>>) IN
    IF interfaces = <<>> THEN None ELSE interfaces[1]

\* ------------------------------------------------- the privileged executor
Passwords == {GoodPassword, BadPassword}

TempScript == "/tmp/tmp.sh"

StateFile == "/tmp/rm01_connection_state"

\* bash under `set -e`: the lines run in order; the first failing line that
\* does not end in `|| true` ends the script with a non-zero status.
RECURSIVE bash_errexit(_, _, _)
bash_errexit(lines, fails, i) ==
    IF i > Len(lines) THEN [attempted |-> 1..Len(lines), status |-> 0]
    ELSE IF i \in fails /\ ~lines[i].ignore
         THEN [attempted |-> 1..i, status |-> 1]
         ELSE bash_errexit(lines, fails, i + 1)

\* How `sudo -S bash script` ends: Popen fails ("raise"), communicate() times
\* out, sudo rejects the password and runs nothing, or the script runs with
\* the lines of `fails` failing; `out` is what is printed on a non-zero exit.
process_result(lines, password, how, fails, out) ==
    CASE how = "raise" ->
           [rc |-> "raise", out |-> LaunchError, attempted |-> {}]
      [] how = "timeout" ->
           [rc |-> "timeout", out |-> <<>>, attempted |-> {}]
      [] OTHER ->
           IF password # GoodPassword
           THEN [rc |-> "nonzero", out |-> out, attempted |-> {}]
           ELSE LET run == bash_errexit(lines, fails, 1) IN
                IF run.status = 0
                THEN [rc |-> "zero", out |-> <<>>, attempted |-> run.attempted]
                ELSE [rc |-> "nonzero", out |-> out, attempted |-> run.attempted]

\* Faulty variant, for comparison: the password handed to sudo as an argument
launch_password_in_argv(script_path, password) ==
    [ argv  |-> <<"sudo", "bash", script_path, password>>,
      stdin |-> <<>> ]

\* Popen(['sudo', '-S', 'bash', script_path]) and
\* communicate(input=password + '\n')
launch(script_path, password) ==
    [ argv  |-> <<"sudo", "-S", "bash", script_path>>,
      stdin |-> <<password, "\n">> ]

\* Faulty variant, for comparison: a return that leaves the script file behind
cleanup_skipped(fs, script_path) == fs

\* the finally clause: the script file is unlinked if it was created
cleanup(fs, script_path) ==
    IF script_path # None /\ fs.script # <<>>
    THEN [fs EXCEPT !.script = <<>>]
    ELSE fs

\* _run_privileged(script, password) as a whole: what it returns, the files
\* it leaves, what it wrote, and what it gave the child process.
run_privileged_call(fs, script, password, result) ==
    LET written == [fs EXCEPT !.script = <<script>>]
        script_path == TempScript
        child == launch(script_path, password)
    IN [ ret   |-> run_privileged(result),
         files |-> cleanup(written, script_path),
         wrote |-> << [path |-> script_path, content |-> script] >>,
         argv  |-> child.argv,
         stdin |-> IF result.rc = "raise" THEN <<>> ELSE child.stdin ]

\* MacOSNetworkService.disable_sharing: the script, run by `sudo bash -c`
\* without `set -e`
mac_disable_script_lines ==
    << Line("sysctl -w net.inet.ip.forwarding=0", None, FALSE),
       Line("pfctl -d", None, TRUE),
       Line("pfctl -F all", None, TRUE),
       Line("networksetup -setdhcp", None, FALSE),
       Line("networksetup -setdnsservers", None, FALSE),
       Line("ifconfig down", None, TRUE),
       Line("sleep 1", None, FALSE),
       Line("ifconfig up", None, TRUE) >>

\* bash without `set -e`: every line is run, whatever fails
bash_plain(lines, fails) == [attempted |-> 1..Len(lines)]

\* what MacOSNetworkService.disable_sharing returns: the exit status of the
\* script is not looked at
mac_disable_sharing(device_found, how) ==
    IF ~device_found
    THEN <<FALSE, <<"Could", "not", "find", "device">>>>
    ELSE CASE how = "timeout" -> <<FALSE, <<"Command", "timeout">>>>
           [] how = "raise"   -> <<FALSE, <<"Unexpected", "error:">> \o LaunchError>>
           [] OTHER           -> <<TRUE, <<"Internet", "sharing", "disabled",
                                           "successfully">>>>

\* outputs a non-zero exit can come with
FailOutputs(password, how) ==
    IF how # "run" THEN {<<>>}
    ELSE IF password # GoodPassword THEN SudoDeniedOutputs
    ELSE ScriptFailOutputs

\* --------------------------------------------------------------- the calls
call_find_upstream_interface ==
    /\ given.fn = "find_upstream_interface"
    /\ call' = [fn |-> given.fn,
                ret |-> find_upstream_interface(given.table, given.exclude)]
    /\ UNCHANGED <<files, given, main_vars, thread_vars>>

call_mac_find_upstream_interface ==
    /\ given.fn = "mac_find_upstream_interface"
    /\ call' = [fn |-> given.fn,
                ret |-> mac_find_upstream_interface(given.table, given.exclude,
                                                    given.ported, given.wifi)]
    /\ UNCHANGED <<files, given, main_vars, thread_vars>>

call_detect_adapter ==
    /\ given.fn = "detect_adapter"
    /\ call' = [fn |-> given.fn,
                ret |-> detect_adapter(given.listing, given.lsusb)]
    /\ UNCHANGED <<files, given, main_vars, thread_vars>>

\* enable_sharing / disable_sharing: the script is generated and handed to
\* _run_privileged.
Sharing(lines) ==
    LET result == process_result(lines, given.password, given.how,
                                 given.fails, given.out)
        x == run_privileged_call(files, lines, given.password, result)
    IN /\ files' = x.files
       /\ call' = [fn |-> given.fn, ret |-> x.ret, result |-> result,
                   lines |-> lines, wrote |-> x.wrote, argv |-> x.argv,
                   stdin |-> x.stdin]
       /\ UNCHANGED <<given, main_vars, thread_vars>>

call_enable_sharing ==
    /\ given.fn = "enable_sharing"
    /\ Sharing(enable_script_lines(Device, given.upstream))

call_disable_sharing ==
    /\ given.fn = "disable_sharing"
    /\ Sharing(disable_script_lines(Device, given.upstream))

call_mac_disable_sharing ==
    /\ given.fn = "mac_disable_sharing"
    /\ call' = [fn |-> given.fn,
                ret |-> mac_disable_sharing(given.device_found, given.how),
                lines |-> mac_disable_script_lines,
                attempted |-> IF given.device_found /\ given.how = "run"
                                 /\ given.elevated
                              THEN bash_plain(mac_disable_script_lines,
                                              given.fails).attempted
                              ELSE {}]
    /\ UNCHANGED <<files, given, main_vars, thread_vars>>

NextBackend ==
    \/ call_find_upstream_interface
    \/ call_mac_find_upstream_interface
    \/ call_detect_adapter
    \/ call_enable_sharing
    \/ call_disable_sharing
    \/ call_mac_disable_sharing

\* the arguments and OS answers a sharing call can be made with
SharingInputs(fn, lines) ==
    \E u \in Upstreams, p \in Passwords, how \in {"raise", "timeout", "run"} :
    \E fails \in SUBSET (1..Len(lines)), out \in FailOutputs(p, how) :
        /\ fails # {} => (how = "run" /\ p = GoodPassword)
        /\ given = [fn |-> fn, upstream |-> u, password |-> p, how |-> how,
                    fails |-> fails, out |-> out]

\* A booted machine with the adapter plugged in; one call, with its inputs.
InitBackend ==
    /\ MainInit
    /\ ~history
    /\ adapter = Device
    /\ routes = <<"enx0", "eth0">>
    /\ \A u \in Upstreams : nat_rules[u] = 0
    /\ ThreadInit
    /\ files = NoFiles
    /\ call = NoCall
    /\ \/ \E t \in SeqsUpTo(RouteNames, MaxRoutes), x \in {"enx0", "eth0"} :
             given = [fn |-> "find_upstream_interface", table |-> t, exclude |-> x]
       \/ \E t \in SeqsUpTo(MacRouteNames, MaxRoutes) :
          \E ported \in {{"en0", "en5"}, {"en0"}}, wifi \in {None, "en0"} :
             given = [fn |-> "mac_find_upstream_interface", table |-> t,
                      exclude |-> "en5", ported |-> ported, wifi |-> wifi]
       \/ \E l \in NetListings, lsusb \in LsusbOutputs :
             given = [fn |-> "detect_adapter", listing |-> l, lsusb |-> lsusb]
       \/ SharingInputs("enable_sharing", enable_script_lines(Device, "eth0"))
       \/ SharingInputs("disable_sharing", disable_script_lines(Device, "eth0"))
       \/ \E found \in BOOLEAN, how \in {"raise", "timeout", "run"} :
          \E elevated \in BOOLEAN, fails \in SUBSET (1..Len(mac_disable_script_lines)) :
             /\ fails # {} => (found /\ how = "run" /\ elevated)
             /\ given = [fn |-> "mac_disable_sharing", device_found |-> found,
                         how |-> how, elevated |-> elevated, fails |-> fails]

SpecBackend == InitBackend /\ [][NextBackend]_vars

\* ================================================= the command-line client
\* What a command finds on the machine: the adapter detect_adapter() returns,
\* the default routes, whether the iptables listing shows the MASQUERADE rule
\* and whether /proc/sys/net/ipv4/ip_forward reads 1.
CliEnvs ==
    [adapter : {None, Device}, routes : RouteTables,
     nat : BOOLEAN, forwarding : BOOLEAN]

\* no privileged script was run
NoResult == [rc |-> "none", out |-> <<>>, reach |-> "none"]

CliResults ==
    {NoResult} \cup
    UNION {ProcessResults(k, p) : k \in {"enable", "disable"}, p \in Passwords}

\* contents the state file can have: none, the two lines _save_state writes,
\* or a file cut short
StateFiles ==
    {<<>>, << <<"enx0">> >>} \cup {<< <<Device, u>> >> : u \in Upstreams}

\* CLI._get_saved_state: the two names, if the file has two lines
get_saved_state(fs) ==
    IF fs.state # <<>> /\ Len(fs.state[1]) >= 2
    THEN << [rm01_interface |-> fs.state[1][1],
             upstream_interface |-> fs.state[1][2]] >>
    ELSE <<>>

\* CLI._save_state: "{rm01_iface}\n{upstream_iface}\n"
save_state(fs, rm01_iface, upstream_iface) ==
    [fs EXCEPT !.state = << <<rm01_iface, upstream_iface>> >>]

\* CLI._clear_state
clear_state(fs) == [fs EXCEPT !.state = <<>>]

\* `if not password: password = getpass.getpass(...)`: `arg` is the value of
\* --password (None without it), `reply` what is typed at the prompt (None:
\* Ctrl-C or end of input)
read_password(arg, reply) ==
    [ cancelled |-> Falsy(arg) /\ reply = None,
      password  |-> IF Falsy(arg) THEN reply ELSE arg ]

\* a command that returns before it runs a privileged script
CliReturn(code, outcome, fs) ==
    [ code |-> code, outcome |-> outcome, files |-> fs, wrote |-> <<>>,
      argv |-> <<>>, stdin |-> <<>>, launched |-> FALSE, password |-> None ]

\* Faulty variant, for comparison: a status that believes the state file
cmd_status_trusts_state_file(fs, env) ==
    IF env.adapter = None
    THEN [code |-> 1, shown |-> "no_adapter", upstream |-> None]
    ELSE IF get_saved_state(fs) # <<>>
         THEN [code |-> 0, shown |-> "connected",
               upstream |-> get_saved_state(fs)[1].upstream_interface]
         ELSE [code |-> 0, shown |-> "not_connected", upstream |-> None]

\* CLI.cmd_status: the exit code, the status line, the upstream line
cmd_status(fs, env) ==
    IF env.adapter = None
    THEN [code |-> 1, shown |-> "no_adapter", upstream |-> None]
    ELSE
    LET state == get_saved_state(fs) IN
    IF env.nat /\ env.forwarding
    THEN [code |-> 0, shown |-> "connected",
          upstream |-> IF state # <<>> /\ state[1].upstream_interface # ""
                       THEN state[1].upstream_interface
                       ELSE find_upstream_interface(env.routes, env.adapter)]
    ELSE IF env.nat
    THEN [code |-> 0, shown |-> "partially_connected", upstream |-> None]
    ELSE [code |-> 0, shown |-> "not_connected", upstream |-> None]

\* Faulty variant, for comparison: a detect that exits 0 whatever it finds
cmd_detect_always_zero(env) ==
    [code |-> 0,
     outcome |-> IF env.adapter # None THEN "adapter_found" ELSE "no_adapter"]

\* CLI.cmd_detect: a missing upstream is only warned about
cmd_detect(env) ==
    IF env.adapter # None
    THEN [code |-> 0, outcome |-> "adapter_found"]
    ELSE [code |-> 1, outcome |-> "no_adapter"]

\* CLI.cmd_connect
cmd_connect(fs, env, arg, reply, result) ==
    IF env.adapter = None THEN CliReturn(1, "no_adapter", fs)
    ELSE
    LET upstream == find_upstream_interface(env.routes, env.adapter) IN
    IF upstream = None THEN CliReturn(1, "no_upstream_found", fs)
    ELSE
    LET pw == read_password(arg, reply) IN
    IF pw.cancelled THEN CliReturn(1, "cancelled", fs)
    ELSE IF Falsy(pw.password) THEN CliReturn(1, "password_needed", fs)
    ELSE
    LET x == run_privileged_call(fs, enable_script_lines(env.adapter, upstream),
                                 pw.password, result)
    IN IF x.ret[1]
       THEN [ code |-> 0, outcome |-> "sharing_enabled",
              files |-> save_state(x.files, env.adapter, upstream),
              wrote |-> Append(x.wrote, [path |-> StateFile,
                                         content |-> <<env.adapter, upstream>>]),
              argv |-> x.argv, stdin |-> x.stdin, launched |-> TRUE,
              password |-> pw.password ]
       ELSE [ code |-> 1, outcome |-> "failed_to_enable", files |-> x.files,
              wrote |-> x.wrote, argv |-> x.argv, stdin |-> x.stdin,
              launched |-> TRUE, password |-> pw.password ]

\* CLI.cmd_disconnect
cmd_disconnect(fs, env, arg, reply, result) ==
    LET saved == get_saved_state(fs)
        upstream == IF env.adapter = None THEN None
                    ELSE find_upstream_interface(env.routes, env.adapter)
        state == IF saved # <<>> THEN saved
                 ELSE IF env.adapter # None /\ upstream # None
                 THEN << [rm01_interface |-> env.adapter,
                          upstream_interface |-> upstream] >>
                 ELSE <<>>
    IN
    IF state = <<>> THEN CliReturn(0, "no_active_connection", fs)
    ELSE
    LET pw == read_password(arg, reply) IN
    IF pw.cancelled THEN CliReturn(1, "cancelled", fs)
    ELSE IF Falsy(pw.password) THEN CliReturn(1, "password_needed", fs)
    ELSE
    LET x == run_privileged_call(fs,
                 disable_script_lines(state[1].rm01_interface,
                                      state[1].upstream_interface),
                 pw.password, result)
    IN IF x.ret[1]
       THEN [ code |-> 0, outcome |-> "sharing_disabled",
              files |-> clear_state(x.files), wrote |-> x.wrote,
              argv |-> x.argv, stdin |-> x.stdin, launched |-> TRUE,
              password |-> pw.password ]
       ELSE [ code |-> 1, outcome |-> "failed_to_disable", files |-> x.files,
              wrote |-> x.wrote, argv |-> x.argv, stdin |-> x.stdin,
              launched |-> TRUE, password |-> pw.password ]

\* CLI.cmd_help
cmd_help == [code |-> 0, outcome |-> "help"]

\* ------------------------------------------------------ the commands, run
cli_status(env) ==
    /\ LET r == cmd_status(files, env) IN
          call' = [fn |-> "cmd_status", ret |-> r.code, shown |-> r.shown,
                   upstream |-> r.upstream, env |-> env, before |-> files]
    /\ UNCHANGED <<files, given, main_vars, thread_vars>>

cli_detect(env) ==
    /\ LET r == cmd_detect(env) IN
          call' = [fn |-> "cmd_detect", ret |-> r.code, outcome |-> r.outcome,
                   env |-> env, before |-> files]
    /\ UNCHANGED <<files, given, main_vars, thread_vars>>

\* a command that may run a privileged script: `result` is how that run ends
Command(fn, kind, r, env, arg, reply, result) ==
    /\ result \in IF r.launched THEN ProcessResults(kind, r.password)
                  ELSE {NoResult}
    /\ files' = r.files
    /\ call' = [fn |-> fn, ret |-> r.code, outcome |-> r.outcome,
                wrote |-> r.wrote, argv |-> r.argv, stdin |-> r.stdin,
                launched |-> r.launched, password |-> r.password,
                env |-> env, arg |-> arg, reply |-> reply, result |-> result,
                before |-> files]
    /\ UNCHANGED <<given, main_vars, thread_vars>>

\* the prompt is shown only without --password
cli_connect(env, arg, reply, result) ==
    /\ ~Falsy(arg) => reply = None
    /\ Command("cmd_connect", "enable",
               cmd_connect(files, env, arg, reply, result),
               env, arg, reply, result)

cli_disconnect(env, arg, reply, result) ==
    /\ ~Falsy(arg) => reply = None
    /\ Command("cmd_disconnect", "disable",
               cmd_disconnect(files, env, arg, reply, result),
               env, arg, reply, result)

cli_help ==
    /\ call' = [fn |-> "cmd_help", ret |-> cmd_help.code,
                outcome |-> cmd_help.outcome, before |-> files]
    /\ UNCHANGED <<files, given, main_vars, thread_vars>>

\* connect, disconnect and detect do not look at the rules or at forwarding
PlainEnvs == {e \in CliEnvs : ~e.nat /\ ~e.forwarding}

NextCli ==
    \/ \E env \in CliEnvs : cli_status(env)
    \/ \E env \in PlainEnvs : cli_detect(env)
    \/ \E env \in PlainEnvs, arg \in PasswordReplies, reply \in PasswordReplies :
       \E result \in CliResults : cli_connect(env, arg, reply, result)
    \/ \E env \in PlainEnvs, arg \in PasswordReplies, reply \in PasswordReplies :
       \E result \in CliResults : cli_disconnect(env, arg, reply, result)
    \/ cli_help

\* A booted machine; a state file may be left over from an earlier session.
InitCli ==
    /\ MainInit
    /\ ~history
    /\ adapter = Device
    /\ routes = <<"enx0", "eth0">>
    /\ \A u \in Upstreams : nat_rules[u] = 0
    /\ ThreadInit
    /\ \E st \in StateFiles : files = [NoFiles EXCEPT !.state = st]
    /\ call = NoCall
    /\ given = NoCall

SpecCli == InitCli /\ [][NextCli]_vars

\* ------------------------------------------------------------------ claims
Calls == {log[i].val : i \in {j \in 1..Len(log) : log[j].ev = "call"}}

Errors == {log[i].msg : i \in {j \in 1..Len(log) : log[j].ev = "error_occurred"}}

\* the paths on which a deferred step ends
FinalExits == {"no_adapter", "no_upstream", "cancelled", "short_circuit",
               "success", "failure", "exception"}

\* C1: while busy, a call of connect() or disconnect() is a no-op: no field
\* of the state machine changes (status, status key, interfaces, credential,
\* sampler, rates), no deferred step is scheduled, no script is started and
\* the call makes no backend call and emits no signal.
C1_BusyCallIsNoOp ==
    [][ (is_busy /\ (connect \/ disconnect))
        => /\ UNCHANGED <<app_vars, pending, pc, os_vars>>
           /\ log' = <<>> ]_vars

C1_Witness ==
    /\ op \in {"connect", "disconnect"}
    /\ exit = "rejected"
    /\ is_busy
    /\ pending # <<>>

\* C2: after any sequence of connect(), disconnect() and refresh() calls and
\* their deferred steps (no operation in flight), a speed sampler exists if
\* and only if the status is Connected.
C2_SamplerIffConnected ==
    ~InFlight => ((speed_monitor # None) <=> (connection_status = CONNECTED))

\* C3: at most one privileged configuration script is executing on the OS.
C3_AtMostOneScript == Executing <= 1

\* C4: every accepted connect() or disconnect() leads to a state with busy
\* false and status other than Connecting, and every path on which a deferred
\* step ends leaves such a state.
C4_BusyCleared ==
    /\ InFlight ~> (~is_busy /\ connection_status # CONNECTING)
    /\ [](exit \in FinalExits => ~is_busy /\ connection_status # CONNECTING)

C4_Witness ==
    /\ op = "perform_connect"
    /\ exit = "exception"
    /\ ~is_busy
    /\ connection_status = FAILED

\* C5: status Connecting implies busy, in every state and at every signal an
\* observer receives (busy is set before, and cleared after, Connecting).
C5_ConnectingImpliesBusy ==
    /\ connection_status = CONNECTING => is_busy
    /\ \A i \in 1..Len(log) : log[i].status = CONNECTING => log[i].busy

C5_Witness ==
    /\ op = "disconnect"
    /\ exit = "accepted"
    /\ connection_status = CONNECTING
    /\ is_busy

\* C6: busy holds exactly while one connect or disconnect operation is in
\* flight: at most one deferred step is queued or running, and busy is true
\* if and only if one is.
C6_BusyBracketsOneOperation ==
    /\ Len(pending) + (IF pc = "idle" THEN 0 ELSE 1) <= 1
    /\ is_busy <=> InFlight

C6_Witness ==
    /\ is_busy
    /\ pc = "disable"
    /\ pending = <<>>

\* C7 (as stated): an accepted connect() or disconnect() goes to Connecting;
\* a connect started from Idle or Failed ends in Connected or Failed; a
\* disconnect started from Connected ends in Idle or Failed; no connect or
\* disconnect step moves directly between two of {Idle, Connected, Failed}.
ConnectStep    == op' \in {"connect", "perform_connect", "connect_return"}
DisconnectStep == op' \in {"disconnect", "perform_disconnect", "disconnect_return"}
Ends           == exit' \in FinalExits

C7_Original ==
    [][ /\ (connect \/ disconnect) /\ ~is_busy => connection_status' = CONNECTING
        /\ ConnectStep /\ Ends /\ pre_status \in {IDLE, FAILED}
             => connection_status' \in {CONNECTED, FAILED}
        /\ DisconnectStep /\ Ends /\ pre_status = CONNECTED
             => connection_status' \in {IDLE, FAILED}
        /\ (ConnectStep \/ DisconnectStep) /\ connection_status' # connection_status
             => CONNECTING \in {connection_status, connection_status'} ]_vars

\* C7 (amended): as above, but a connect also ends in Idle, and a disconnect
\* in Connected, when the credential request is cancelled; and a deferred
\* step moves directly between two of {Idle, Connected, Failed} only when the
\* status was taken out of Connecting while the operation was in flight,
\* which only refresh() does.
C7_StatusGraph ==
    [][ /\ (connect \/ disconnect) /\ ~is_busy => connection_status' = CONNECTING
        /\ ConnectStep /\ Ends /\ pre_status \in {IDLE, FAILED}
             => /\ connection_status' \in {CONNECTED, FAILED, IDLE}
                /\ connection_status' = IDLE => exit' = "cancelled"
        /\ DisconnectStep /\ Ends /\ pre_status = CONNECTED
             => /\ connection_status' \in {IDLE, FAILED, CONNECTED}
                /\ connection_status' = CONNECTED => exit' = "cancelled"
        /\ InFlight /\ InFlight' /\ connection_status' # connection_status
             => \E listable \in BOOLEAN : refresh_interface(listable) ]_vars

C7_Witness ==
    /\ op = "perform_disconnect"
    /\ exit = "cancelled"
    /\ pre_status = CONNECTED
    /\ connection_status = CONNECTED

\* C8: when a connect attempt fails with the backend's authentication
\* failure ("error_permission"), the cached credential is cleared; a cleared
\* credential is only ever replaced by one obtained from request_password();
\* and a connect step that finds no cached credential calls
\* request_password() before it calls enable_sharing.
PermissionError == <<"error_", "permission">>

CallsInOrder(first, second) ==
    \E i, j \in 1..Len(log) :
        /\ i < j
        /\ log[i].ev = "call" /\ log[i].val = first
        /\ log[j].ev = "call" /\ log[j].val = second

C8_AuthFailureReprompts ==
    [][ /\ op' = "connect_return" /\ PermissionError \in Errors'
             => cached_password' = None
        /\ Falsy(cached_password) /\ ~Falsy(cached_password')
             => "request_password" \in Calls'
        /\ op' = "perform_connect" /\ Falsy(cached_password)
             /\ "enable_sharing" \in Calls'
             => CallsInOrder("request_password", "enable_sharing")' ]_vars

C8_Witness ==
    /\ op = "connect_return"
    /\ PermissionError \in Errors
    /\ cached_password = None
    /\ connection_status = FAILED

\* C9: when the credential request is cancelled, the operation ends with the
\* status held before the attempt began, busy false, no error event and no
\* backend script run.
C9_CancelRestoresStatus ==
    exit = "cancelled"
    => /\ connection_status = pre_status
       /\ ~is_busy
       /\ Errors = {}
       /\ Calls \cap {"enable_sharing", "disable_sharing"} = {}

\* C10: with an adapter detected (and the rule listing readable), refresh()
\* sets the status from the live OS state alone, whatever the status was: NAT
\* rule and forwarding give Connected with the sampler started, NAT rule
\* without forwarding gives Failed, no NAT rule gives Idle.
NatPresent == \E u \in Upstreams : nat_rules[u] > 0

C10_RefreshFromOS ==
    (op = "refresh" /\ adapter # None /\ "iptables_listed" \in Calls)
    => /\ (NatPresent /\ ip_forward)
            => (connection_status = CONNECTED /\ speed_monitor # None)
       /\ (NatPresent /\ ~ip_forward) => connection_status = FAILED
       /\ ~NatPresent => connection_status = IDLE

\* the error events of the last step, in the order emitted
ErrorList == SelectSeq(log, LAMBDA e : e.ev = "error_occurred")

\* the signals of the last step with the given name
Signals(sig) == {i \in 1..Len(log) : log[i].ev = sig}

\* C11: a connect() from Idle that gets through (adapter and upstream found,
\* credential accepted, script done) ends in Connected with a sampler running
\* and busy false; a disconnect() that follows and gets through ends in Idle
\* with no sampler, both rates 0 and busy false.
C11_ConnectThenDisconnect ==
    /\ (op = "connect_return" /\ exit = "success" /\ pre_status = IDLE)
         => /\ connection_status = CONNECTED
            /\ speed_monitor # None
            /\ ~is_busy
            /\ cached_password = GoodPassword
    /\ (op = "disconnect_return" /\ exit = "success" /\ pre_status = CONNECTED)
         => /\ connection_status = IDLE
            /\ speed_monitor = None
            /\ upload_speed = 0 /\ download_speed = 0
            /\ ~is_busy

C11_Witness ==
    /\ op = "disconnect_return"
    /\ exit = "success"
    /\ pre_status = CONNECTED
    /\ connection_status = IDLE
    /\ speed_monitor = None
    /\ nat_rules = [u \in Upstreams |-> 0]

\* C12: when detect_adapter() finds no adapter, the connect step ends with
\* status Failed and busy false, emits the no-interface error and no other,
\* does not request a credential and starts no script.
C12_NoAdapter ==
    [][ (op' = "perform_connect" /\ adapter = None /\ exit' # "exception")
        => /\ connection_status' = FAILED
           /\ ~is_busy'
           /\ Len(ErrorList') = 1
           /\ ErrorList'[1].msg = <<"error_no_interface">>
           /\ Calls' \cap {"request_password", "enable_sharing"} = {}
           /\ pc' = "idle" /\ scripts' = scripts ]_vars

C12_Witness ==
    /\ op = "perform_connect"
    /\ exit = "no_adapter"
    /\ adapter = None
    /\ connection_status = FAILED
    /\ ~is_busy

\* no default route names an interface other than the adapter and the
\* virtual ones
NoUpstream ==
    \A i \in 1..Len(routes) :
        \/ routes[i] = adapter
        \/ \E p \in VirtualPrefixes : StartsWith(routes[i], p)

\* C13: when an adapter is detected and no upstream interface is found, the
\* connect step ends with status Failed and busy false, emits the no-upstream
\* error and no other, does not request a credential and starts no script.
C13_NoUpstream ==
    [][ (op' = "perform_connect" /\ adapter # None /\ NoUpstream
           /\ exit' # "exception")
        => /\ connection_status' = FAILED
           /\ ~is_busy'
           /\ Len(ErrorList') = 1
           /\ ErrorList'[1].msg = <<"error_no_upstream">>
           /\ Calls' \cap {"request_password", "enable_sharing"} = {}
           /\ pc' = "idle" /\ scripts' = scripts ]_vars

C13_Witness ==
    /\ op = "perform_connect"
    /\ exit = "no_upstream"
    /\ adapter # None
    /\ NoUpstream
    /\ connection_status = FAILED
    /\ ~is_busy

\* C14: refresh() never changes the busy flag and never emits busy_changed,
\* whatever the state and whatever it finds on the OS.
C14_RefreshKeepsBusy ==
    [][ (\E listable \in BOOLEAN : refresh_interface(listable))
        => /\ is_busy' = is_busy
           /\ Signals("busy_changed")' = {} ]_vars

C14_Witness ==
    /\ op = "refresh"
    /\ is_busy
    /\ connection_status = CONNECTED
    /\ pending # <<>>

\* what the last step learnt from the rule listing
Listing == Calls \cap {"iptables_listed", "iptables_refused"}

\* C15: refresh() is idempotent: called again with the OS unchanged (same
\* adapter, routes, rules, forwarding and listing) it leaves status, status
\* key, interfaces, credential, sampler and rates as the first call left
\* them, and starts no sampler.
C15_RefreshIdempotent ==
    [][ ( /\ op = "refresh"
          /\ \E listable \in BOOLEAN : refresh_interface(listable)
          /\ Listing' = Listing )
        => /\ UNCHANGED app_vars
           /\ "SpeedMonitor.start" \notin Calls' ]_vars

C15_Witness ==
    /\ op = "refresh"
    /\ exit = "again"
    /\ "iptables_listed" \in Calls
    /\ "SpeedMonitor.start" \notin Calls
    /\ connection_status = CONNECTED
    /\ speed_monitor # None

\* C16: status_changed is emitted only when the status written differs from
\* the status held just before (the one the previous status_changed of the
\* same handler announced, or the one the handler started with), in
\* connect(), disconnect(), their deferred steps and refresh().
C16_StatusChangedOnlyOnChange ==
    [][ \A i \in Signals("status_changed")' :
            LET earlier == {k \in Signals("status_changed")' : k < i}
                before  == IF earlier = {}
                           THEN connection_status
                           ELSE log'[CHOOSE k \in earlier :
                                        \A m \in earlier : m <= k].val
            IN log'[i].val # before ]_vars

\* C17: an exception raised inside a deferred step (by detection, upstream
\* lookup or the credential request; one raised while the script is launched
\* comes back from the backend as a failure) ends the step with status
\* Failed, the exception's message as the one error event, busy false, and
\* the handler returned.
C17_ExceptionCaught ==
    /\ exit = "exception"
         => /\ connection_status = FAILED
            /\ Len(ErrorList) = 1 /\ ErrorList[1].msg = FaultMsg
            /\ ~is_busy
            /\ pc = "idle"
    /\ (op \in {"connect_return", "disconnect_return"} /\ LaunchError \in Errors)
         => /\ connection_status = FAILED
            /\ Len(ErrorList) = 1
            /\ ~is_busy
            /\ pc = "idle"

C17_Witness ==
    /\ op = "perform_disconnect"
    /\ exit = "exception"
    /\ connection_status = FAILED
    /\ FaultMsg \in Errors
    /\ ~is_busy

\* C18: once the sampler is stopped the reported rates are (0.0, 0.0), and
\* they stay so until a sampler is started again, however the thread's last
\* pass (a sample emitted or posted around the stop) interleaves with the
\* stop sequence.
C18_StoppedRatesZero ==
    speed_monitor = None => (upload_speed = 0 /\ download_speed = 0)

C18_Witness ==
    /\ op = "stop_speed_monitor"
    /\ exit = "posted_dropped"
    /\ speed_monitor = None
    /\ upload_speed = 0 /\ download_speed = 0

\* C19: for two consecutive readings (rx0, tx0), (rx1, tx1) taken elapsed > 0
\* seconds apart the emitted sample is upload = max(0, rx1 - rx0) / elapsed,
\* download = max(0, tx1 - tx0) / elapsed; (1000, 1000) then (1500, 1300)
\* over 1 s gives (500, 300); no rate is negative.
C19_RateFromCounters ==
    \A i \in 1..Len(sampled) :
        LET last    == sampled[i].last
            current == sampled[i].current
            elapsed == sampled[i].elapsed
            emitted == sampled[i].emitted
        IN elapsed > 0
           => /\ Len(emitted) = 1
              /\ emitted[1][1] * elapsed = Max(0, current[1] - last[1])
              /\ emitted[1][2] * elapsed = Max(0, current[2] - last[2])
              /\ emitted[1][1] >= 0 /\ emitted[1][2] >= 0
              /\ (last = <<1000, 1000>> /\ current = <<1500, 1300>> /\ elapsed = 1)
                    => emitted[1] = <<500, 300>>

C19_Witness ==
    /\ Len(sampled) = 1
    /\ sampled[1].last = <<1500, 1300>>
    /\ sampled[1].current = <<200, 2000>>
    /\ sampled[1].elapsed = 2
    /\ sampled[1].emitted = << <<0, 350>> >>

\* C20: enable_sharing is idempotent with respect to the rules: after a
\* disable_sharing followed by an enable_sharing for the same (device,
\* upstream), and after two enable_sharing for the same pair, exactly one
\* MASQUERADE rule and one of each FORWARD rule of that pair is installed,
\* also when the deletions failed because no rule existed.
C20_EnableIdempotent ==
    ( /\ Len(ran) = 2
      /\ ran[2].kind = "enable" /\ ran[2].complete
      /\ ran[1].complete
      /\ ran[1].device = ran[2].device /\ ran[1].upstream = ran[2].upstream )
    => \A r \in PairRules(ran[2].device, ran[2].upstream) : tables[r] = 1

C20_Witness ==
    /\ Len(ran) = 2
    /\ ran[1].kind = "enable" /\ ran[1].complete
    /\ ran[2].kind = "enable" /\ ran[2].complete
    /\ ran[1].upstream = ran[2].upstream
    /\ \A r \in PairRules(Device, ran[2].upstream) : tables[r] = 1

\* C24: after a successful disconnect() the cached credential is absent, so
\* that the next connect() has to request one.
C24_CredentialDiscarded ==
    (op = "disconnect_return" /\ exit = "success") => cached_password = None

\* C30: a disconnect deferred step stops the sampler before it requests a
\* credential or calls the backend, whatever path it leaves on; when it has
\* completed there is no sampler and both rates are 0.
C30_StopsSamplerFirst ==
    op \in {"perform_disconnect", "disconnect_return"} =>
        /\ speed_monitor = None
        /\ upload_speed = 0
        /\ download_speed = 0
        /\ op = "perform_disconnect" =>
              \A i \in 1..Len(log) :
                  log[i].ev = "call" =>
                      \E j \in 1..(i - 1) :
                          log[j].ev = "speed_changed" /\ log[j].rate = <<0, 0>>

\* a disconnect step that requested a credential and was cancelled, and one
\* whose disable_sharing failed
C30_Witness ==
    \/ /\ op = "perform_disconnect"
       /\ exit = "cancelled"
       /\ \E i \in 1..Len(log) : log[i].ev = "call" /\ log[i].val = "request_password"
    \/ op = "disconnect_return" /\ exit = "failure"

\* the calls that go through _run_privileged
SharingCalls == {"enable_sharing", "disable_sharing"}

\* C21: when the privileged executor has returned, on whichever path (exit 0,
\* non-zero exit, rejected password, timeout, failure to launch), the
\* temporary script file it created does not exist.
C21_ScriptFileRemoved ==
    call.fn \in SharingCalls => files.script = <<>>

\* the executor wrote its script and then timed out, or could not launch sudo
C21_Witness ==
    /\ call.fn \in SharingCalls
    /\ call.wrote # <<>>
    /\ call.wrote[1].path = TempScript
    /\ call.result.rc \in {"timeout", "raise"}

\* the phrases _run_privileged knows a rejected password by
DenialPhrases == { <<"incorrect", "password">>, <<"authentication", "failure">> }

Denied(out) == \E phrase \in DenialPhrases : Contains(LowerMsg(out), phrase)

\* C22: the executor always returns a (success, error) pair: success exactly
\* on exit 0; 'error_permission' exactly on a non-zero exit whose output holds
\* a known denial phrase; the timeout message on a timeout; otherwise the
\* message of the tool (or of the failure to launch it).
C22_ExecutorOutcome ==
    call.fn \in SharingCalls =>
        LET r == call.result
            success == call.ret[1]
            error == call.ret[2]
        IN /\ Len(call.ret) = 2
           /\ success <=> (r.rc = "zero")
           /\ (error = <<"error_", "permission">>)
                  <=> (r.rc = "nonzero" /\ Denied(r.out))
           /\ r.rc = "timeout" => error = TimeoutMsg
           /\ (r.rc = "nonzero" /\ ~Denied(r.out)) => error = r.out
           /\ r.rc = "raise" => error = r.out

\* a non-zero exit whose output holds no denial phrase, reported in the
\* tool's own words
C22_Witness ==
    /\ call.fn \in SharingCalls
    /\ call.result.rc = "nonzero"
    /\ call.result.out = <<"iptables:", "Permission", "denied">>
    /\ call.ret = <<FALSE, <<"iptables:", "Permission", "denied">>>>

\* the lines of a disable script that undo something (not `sleep`, not `echo`)
TeardownSteps(lines) ==
    {i \in 1..Len(lines) : lines[i].cmd \notin {"sleep 1", "echo"}}

\* C23: when sudo has accepted the password and the disable script has run,
\* disable_sharing reports success whichever of its teardown steps failed,
\* and every line of the script was attempted.
C23_DisableBestEffort ==
    /\ ( /\ call.fn = "disable_sharing"
         /\ given.how = "run"
         /\ given.password = GoodPassword
         /\ given.fails \subseteq TeardownSteps(call.lines) )
       => /\ call.ret[1]
          /\ call.result.attempted = 1..Len(call.lines)
    /\ ( /\ call.fn = "mac_disable_sharing"
         /\ given.device_found
         /\ given.how = "run"
         /\ given.elevated
         /\ given.fails \subseteq TeardownSteps(call.lines) )
       => /\ call.ret[1]
          /\ call.attempted = 1..Len(call.lines)

\* every teardown step of the Linux script failed and success was reported
C23_Witness ==
    /\ call.fn = "disable_sharing"
    /\ given.how = "run"
    /\ given.password = GoodPassword
    /\ given.fails = TeardownSteps(call.lines)
    /\ call.ret[1]

\* a route entry that may be returned
Qualifies(name, exclude, prefixes) ==
    name # exclude /\ ~\E p \in prefixes : StartsWith(name, p)

\* the interface of the first qualifying entry of the table, None without one
FirstQualifying(table, exclude, prefixes) ==
    LET q == {i \in 1..Len(table) : Qualifies(table[i], exclude, prefixes)} IN
    IF q = {} THEN None ELSE table[CHOOSE i \in q : \A j \in q : i <= j]

\* C25: find_upstream_interface(exclude) returns the interface of the first
\* default-route entry that is not `exclude` and does not start with a
\* loopback / virtual / VPN prefix, and none when no entry qualifies (on
\* Linux and on macOS).
C25_FirstQualifyingRoute ==
    /\ call.fn = "find_upstream_interface" =>
           call.ret = FirstQualifying(given.table, given.exclude, VirtualPrefixes)
    /\ call.fn = "mac_find_upstream_interface" =>
           call.ret = FirstQualifying(given.table, given.exclude, MacVpnPrefixes)

\* the entry's own uevent is readable and is that of an AX88179
OwnMetadataMatches(e) ==
    /\ e.device
    /\ e.uevent = "ok"
    /\ e.vendor = VENDOR_ID
    /\ e.product \in PRODUCT_IDS

\* C26: detect_adapter returns the first interface, in enumeration order,
\* whose own metadata matches the adapter's vendor and product id, and none
\* when there is no such interface.
C26_DetectByOwnMetadata ==
    call.fn = "detect_adapter" =>
        LET l == given.listing
            m == {i \in 1..Len(l) : OwnMetadataMatches(l[i])}
        IN call.ret = IF m = {} THEN None
                      ELSE l[CHOOSE i \in m : \A j \in m : i <= j].name

\* Whether a command's outcome is a failure, told from what the command was
\* given: no adapter (status, detect, connect), no upstream (connect), a
\* cancelled or empty password, a privileged script that did not exit 0.  A
\* disconnect that finds neither a state file nor an adapter with an upstream
\* has nothing to disconnect.
CliFailure(c) ==
    LET no_adapter == c.env.adapter = None
        upstream == IF no_adapter THEN None
                    ELSE find_upstream_interface(c.env.routes, c.env.adapter)
        no_password == Falsy(c.arg) /\ Falsy(c.reply)
        backend_failed == c.result.rc # "zero"
        nothing == get_saved_state(c.before) = <<>> /\ upstream = None
    IN CASE c.fn = "cmd_connect" ->
              no_adapter \/ upstream = None \/ no_password \/ backend_failed
         [] c.fn = "cmd_disconnect" ->
              ~nothing /\ (no_password \/ backend_failed)
         [] c.fn \in {"cmd_status", "cmd_detect"} -> no_adapter
         [] OTHER -> FALSE

\* C27: a CLI command returns 1 exactly when its outcome is a failure, and 0
\* otherwise (help, a status or detect that found the adapter, a connect or
\* disconnect that succeeded, a disconnect with nothing to disconnect).
C27_ExitCodes ==
    call.fn # "none" => call.ret = IF CliFailure(call) THEN 1 ELSE 0

\* a connect refused by sudo returned 1, or a disconnect with nothing to
\* disconnect returned 0
C27_Witness ==
    \/ /\ call.fn = "cmd_connect"
       /\ call.launched
       /\ call.result.rc = "nonzero"
       /\ call.ret = 1
    \/ /\ call.fn = "cmd_disconnect"
       /\ call.env.adapter = None
       /\ call.before.state = <<>>
       /\ call.ret = 0

\* C28: the status the CLI shows (connected / partially connected / not
\* connected) is the same whatever the state file holds, or whether it exists.
C28_StatusIgnoresStateFile ==
    call.fn = "cmd_status" =>
        \A st \in StateFiles :
            cmd_status([call.before EXCEPT !.state = st], call.env).shown
                = call.shown

\* a state file naming a connection while the status shown is "not connected",
\* and no state file while it is "connected"
C28_Witness ==
    /\ call.fn = "cmd_status"
    /\ \/ get_saved_state(call.before) # <<>> /\ call.shown = "not_connected"
       \/ call.before.state = <<>> /\ call.shown = "connected"

\* the command as it would have run had the credential been p
WithCredential(c, p) ==
    IF c.fn = "cmd_connect"
    THEN cmd_connect(c.before, c.env, p, None, c.result)
    ELSE cmd_disconnect(c.before, c.env, p, None, c.result)

\* C29: what a connect or disconnect writes to disk (the temporary script, the
\* state file) and the arguments it starts sudo with are the same for every
\* credential; the credential is passed on standard input only.
C29_CredentialNotStored ==
    (call.fn \in {"cmd_connect", "cmd_disconnect"} /\ call.launched) =>
        /\ \A p \in Passwords :
              /\ WithCredential(call, p).wrote = call.wrote
              /\ WithCredential(call, p).files = files
              /\ WithCredential(call, p).argv = call.argv
        /\ call.stdin \in {<<>>, <<call.password, "\n">>}

\* a connect that ran the script, wrote the state file and fed sudo the
\* password
C29_Witness ==
    /\ call.fn = "cmd_connect"
    /\ call.ret = 0
    /\ Len(call.wrote) = 2
    /\ files.state # <<>>
    /\ call.stdin = <<GoodPassword, "\n">>

\* positions in the log of the calls of fn
CallAt(fn) == {i \in 1..Len(log) : log[i].ev = "call" /\ log[i].val = fn}

\* C31: the connect step runs in a fixed order: request_password() is called
\* only after detect_adapter() and find_upstream_interface() have been called
\* and have found an adapter and an upstream, and only when no credential is
\* cached; enable_sharing is called last, only with a device, an upstream and
\* a credential that is not empty; an empty reply of the dialog ends the step
\* like a cancellation (status Idle, busy false, no error, no script).
C31_ConnectOrder ==
    [][ op' = "perform_connect" =>
        /\ \A i \in CallAt("request_password")' :
              /\ cached_password \in {None, ""}
              /\ adapter # None
              /\ find_upstream_interface(routes, adapter) # None
              /\ \E j \in CallAt("detect_adapter")' : j < i
              /\ \E j \in CallAt("find_upstream_interface")' : j < i
        /\ \A i \in CallAt("enable_sharing")' :
              /\ exit' = "launched"
              /\ \A j \in CallAt("request_password")' : j < i
              /\ \A j \in CallAt("find_upstream_interface")' : j < i
              /\ current_interface' # None /\ current_interface' = adapter
              /\ upstream_interface' # None
              /\ upstream_interface' = find_upstream_interface(routes, adapter)
              /\ cached_password' \notin {None, ""}
        /\ exit' = "launched" <=> CallAt("enable_sharing")' # {}
        /\ (CallAt("request_password")' # {} /\ cached_password' \in {None, ""}
            /\ exit' # "exception")
              => /\ exit' = "cancelled"
                 /\ connection_status' = IDLE
                 /\ ~is_busy'
                 /\ Errors' = {}
                 /\ pc' = "idle" /\ scripts' = scripts ]_vars

\* a connect step that asked for the credential and then started the script
C31_Witness ==
    /\ op = "perform_connect"
    /\ exit = "launched"
    /\ CallsInOrder("detect_adapter", "find_upstream_interface")
    /\ CallsInOrder("find_upstream_interface", "request_password")
    /\ CallsInOrder("request_password", "enable_sharing")
    /\ cached_password = GoodPassword

\* C32: a disconnect step that finds the device or the upstream interface
\* unknown ends with status Idle and busy false, requests no credential and
\* starts no script; a successful disconnect clears both interfaces, so the
\* step of a disconnect() that follows it takes this path.
C32_DisconnectShortCircuit ==
    [][ /\ (op' = "perform_disconnect"
            /\ (current_interface = None \/ upstream_interface = None))
           => /\ exit' = "short_circuit"
              /\ connection_status' = IDLE
              /\ ~is_busy'
              /\ Calls' \cap {"request_password", "disable_sharing"} = {}
              /\ Errors' = {}
              /\ pc' = "idle" /\ scripts' = scripts
        /\ (op' = "disconnect_return" /\ exit' = "success")
           => current_interface' = None /\ upstream_interface' = None
        /\ (op' = "perform_disconnect" /\ exit' = "short_circuit")
           => current_interface = None \/ upstream_interface = None ]_vars

\* the step of a second disconnect(), with the credential of the first still
\* cached, ended on the short path
C32_Witness ==
    /\ op = "perform_disconnect"
    /\ exit = "short_circuit"
    /\ current_interface = None /\ upstream_interface = None
    /\ cached_password = GoodPassword
    /\ connection_status = IDLE
    /\ ~is_busy

\* C33: when disable_sharing fails, the disconnect ends with status Failed
\* and busy false, the error is emitted, both interfaces are kept, and the
\* cached credential is cleared exactly when the error names a permission or
\* a password (the executor's error_permission); a timeout keeps it.
C33_DisableFailure ==
    [][ (op' = "disconnect_return" /\ exit' = "failure")
        => /\ connection_status' = FAILED
           /\ ~is_busy'
           /\ Len(ErrorList') = 1
           /\ current_interface' = current_interface /\ current_interface' # None
           /\ upstream_interface' = upstream_interface /\ upstream_interface' # None
           /\ cached_password' \in {None, cached_password}
           /\ cached_password # None
           /\ cached_password' = None
                <=> \/ Contains(LowerMsg(ErrorList'[1].msg), <<"permission">>)
                    \/ Contains(LowerMsg(ErrorList'[1].msg), <<"password">>)
           /\ ErrorList'[1].msg = TimeoutMsg => cached_password' = cached_password
           /\ ErrorList'[1].msg = PermissionError => cached_password' = None ]_vars

\* a disable_sharing that timed out: Failed, the credential still cached
C33_Witness ==
    /\ op = "disconnect_return"
    /\ exit = "failure"
    /\ connection_status = FAILED
    /\ Errors = {TimeoutMsg}
    /\ cached_password = GoodPassword
    /\ current_interface # None /\ upstream_interface # None

\* C35: whenever a disconnect has completed with status Idle, sharing is not
\* active on the OS: a refresh_interface() run right then, with the adapter
\* present and the rules listable, leaves the status Idle.
C35_IdleMeansNotSharing ==
    (op \in {"perform_disconnect", "disconnect_return"}
     /\ exit \in FinalExits
     /\ connection_status = IDLE
     /\ adapter # None)
        => refresh_interface_steps(Self, TRUE).connection_status = IDLE

\* C36: in every reachable state, status Connected implies that the device
\* interface is known, and a sampler polls the current device interface.
C36_ConnectedHasInterface ==
    /\ connection_status = CONNECTED => current_interface # None
    /\ speed_monitor # None => speed_monitor = current_interface

\* C37: at most one sampler exists at a time: a handler creates a sampler
\* only when the state machine references none, and creates at most one.
C37_OneSampler ==
    [][ /\ Cardinality(CallAt("SpeedMonitor.start")') <= 1
        /\ CallAt("SpeedMonitor.start")' # {}
              => speed_monitor = None /\ speed_monitor' # None
        /\ (speed_monitor # None /\ speed_monitor' # None)
              => speed_monitor' = speed_monitor ]_vars

\* a connect succeeded while a sampler was running, and started none
C37_Witness ==
    /\ op = "connect_return"
    /\ exit = "success"
    /\ speed_monitor # None
    /\ "SpeedMonitor.start" \notin Calls

\* where a live sampler thread can stand
ThreadAlive == {"initial", "test", "sleep", "check", "sample"}

\* C34: once stop() has cleared the flag, the sampling loop ends at its next
\* loop test or post-sleep check (the thread being scheduled), and a pass whose
\* post-sleep check sees the flag cleared reads no counters and emits nothing.
C34_StopEndsLoop ==
    /\ [][ /\ (thread.pc = "check" /\ ~thread.running /\ thread'.pc # "check")
              => /\ thread'.pc = "done"
                 /\ sampled' = <<>>
                 /\ Len(queued') <= Len(queued)
           /\ (~thread.running /\ thread.pc \in {"test", "sleep", "check", "done"})
              => /\ thread'.pc # "sample"
                 /\ sampled' = <<>> ]_vars
    /\ [](  (thread.pc \in ThreadAlive /\ ~thread.running)
            => <>(thread.pc = "done") )

\* the GUI thread waits in wait(2000) and the thread has ended
C34_Witness ==
    /\ gui = "wait"
    /\ speed_monitor # None
    /\ ~thread.running
    /\ thread.pc = "done"

\* C38: every rate the sampler emits is at most the increase of the counter
\* during that pass divided by the elapsed time, also when the read of the
\* pass before failed and gave (0, 0).
C38_RateAtMostIncrease ==
    \A i \in 1..Len(sampled) :
        LET pass == sampled[i] IN
        \A k \in 1..Len(pass.emitted) :
            /\ pass.emitted[k][1] * pass.elapsed
                  <= Max(0, pass.counter[1] - pass.seen[1])
            /\ pass.emitted[k][2] * pass.elapsed
                  <= Max(0, pass.counter[2] - pass.seen[2])

\* the privilege elevation asked for by the call was denied / was granted
ElevationDenied ==
    /\ given.how = "run"
    /\ \/ call.fn = "disable_sharing" /\ given.password # GoodPassword
       \/ call.fn = "mac_disable_sharing" /\ given.device_found
          /\ ~given.elevated

ElevationGranted ==
    /\ given.how = "run"
    /\ \/ call.fn = "disable_sharing" /\ given.password = GoodPassword
       \/ call.fn = "mac_disable_sharing" /\ given.device_found
          /\ given.elevated

\* C39: the two backends agree on what disable_sharing returns for the same
\* outcome of the privilege elevation: each returns success = false when it is
\* denied, and success = true when it is granted and no command fails.
C39_BackendsAgree ==
    call.fn \in {"disable_sharing", "mac_disable_sharing"}
        => /\ ElevationDenied => call.ret[1] = FALSE
           /\ (ElevationGranted /\ given.fails = {}) => call.ret[1] = TRUE

====
